---- MODULE Spec2Model ----
(***************************************************************************)
(* x402-tron: the client-side payment mechanisms (exact_permit on TRON and *)
(* EVM, exact on EVM, gasfree_exact on TRON) and the GasFree relay client's*)
(* settlement polling loop, modelled from the TypeScript sources.          *)
(*                                                                         *)
(* Strings of the program are TLA+ strings; amounts are decimal strings    *)
(* that the code parses with BigInt() and formats with toString().         *)
(***************************************************************************)
EXTENDS Integers, Sequences, FiniteSets, TLC

VARIABLES
  \* ---- GasFreeAPIClient.waitForSuccess (utils/gasfree.ts) ----
  wpc,           \* position of the waitForSuccess call
  clock,         \* Date.now(), in ticks
  startTime,     \* const startTime = Date.now()
  timeout,       \* parameter timeout
  pollInterval,  \* parameter pollInterval
  statusData,    \* let statusData: GasFreeSubmitResponseData | undefined
  wresult,       \* the object waitForSuccess returned
  werror,        \* the error waitForSuccess threw
  polls,         \* number of getStatus calls started
  sleeps,        \* number of setTimeout sleeps started
  lastQueryAt,   \* elapsed time (Date.now() - startTime) at the last getStatus call
  timedOut,      \* history: the loop was left because its condition was false
  \* ---- ClientMechanism.createPaymentPayload (mechanisms/*.ts) ----
  mpc,            \* position of the createPaymentPayload call
  mech,           \* the mechanism the call runs in
  requirements,   \* the requirements object the caller passed
  issued,         \* history: the requirements as the server issued them
  extensions,     \* the extensions argument
  accountInfo,    \* what getAddressInfo resolved to
  locals,         \* local variables that live across an await
  allowanceCalls, \* the arguments of the signer's ensureAllowance calls
  signCalls,      \* the arguments of the signer's signTypedData calls
  mresult,        \* the PaymentPayload returned
  merror,         \* the error thrown
  apiCalls,       \* history: the relay API calls that settled, with their results
  allowanceResults, \* history: the booleans ensureAllowance resolved with
  \* ---- FacilitatorMechanism verify/settle (settlement attempts) ----
  now,            \* the facilitator's clock, Unix seconds past the epoch of the run
  attempts,       \* the settlement attempts, by attempt id
  nonceUsed,      \* the (buyer, nonce) pairs the permit contract has consumed
  \* ---- X402Client (client/x402Client.ts) ----
  mechanisms,     \* private mechanisms: MechanismEntry[]
  policies,       \* private policies: PaymentPolicy[]
  registrations,  \* history: the register calls, in the order they were made
  lastCall,       \* the last call on the client or on a policy, with its outcome
  \* ---- DefaultTokenSelectionStrategy (client/tokenSelection.ts) ----
  selectCalls,    \* the select calls on one strategy object, with their outcomes
  \* ---- ClientSigner.ensureAllowance (signers/signer.ts, signers/evmSigner.ts) ----
  apc,            \* position of the ensureAllowance call
  signerClass,    \* the class of the signer the call runs in
  mode,           \* parameter mode
  amount,         \* parameter amount
  loopIndex,      \* the loop variable i of the confirmation loop
  waited,         \* the milliseconds spent in setTimeout sleeps
  checks,         \* number of confirmation queries that settled
  submitted,      \* history: the approve transaction was sent
  confirmed,      \* history: a confirmation query saw the transaction confirmed
  aresult,        \* the boolean ensureAllowance returned
  aerror,         \* the error ensureAllowance threw
  \* ---- address conversion (core/src/address.ts) ----
  addressCalls,   \* the toEvmHex and toBase58 calls made, with their outcomes
  \* ---- X402FetchClient.request (http/fetchClient) ----
  fpc,            \* position of the request call
  requests,       \* the HTTP requests issued with fetch, in order
  responses,      \* the responses fetch resolved with, in order
  payloads,       \* the payment payloads handlePayment returned
  fresult,        \* the response request resolved with
  ferror,         \* the error request rejected with
  \* ---- two calls in flight on one X402Client ----
  calls,          \* the two calls: their arguments, locals and outcome
  lastAssigned,   \* the candidates list assigned last, by either call
  \* ---- GasFreeAPIClient.getNonce (utils/gasfree.ts) ----
  npc,            \* position of the getNonce call
  nuser,          \* the user argument
  nlookup,        \* what getAddressInfo settled with
  nresult         \* the number getNonce returned

waitVars == <<wpc, clock, startTime, timeout, pollInterval, statusData,
              wresult, werror, polls, sleeps, lastQueryAt, timedOut>>

mechVars == <<mpc, mech, requirements, issued, extensions, accountInfo,
              locals, allowanceCalls, signCalls, mresult, merror, apiCalls,
              allowanceResults>>

vars == <<wpc, clock, startTime, timeout, pollInterval, statusData,
          wresult, werror, polls, sleeps, lastQueryAt, timedOut,
          mpc, mech, requirements, issued, extensions, accountInfo,
          locals, allowanceCalls, signCalls, mresult, merror, apiCalls,
          allowanceResults,
          now, attempts, nonceUsed, mechanisms, policies, registrations,
          lastCall, selectCalls, apc, signerClass, mode, amount, loopIndex, waited,
          checks, submitted, confirmed, aresult, aerror, addressCalls,
          fpc, requests, responses, payloads, fresult, ferror,
          calls, lastAssigned, npc, nuser, nlookup, nresult>>

-----------------------------------------------------------------------------
(* Bounds of the model *)

MaxTimeout == 3        \* largest timeout parameter tried, in ticks
MaxPollInterval == 2   \* largest pollInterval parameter tried, in ticks
MaxLatency == 1        \* longest a getStatus round trip takes, in ticks
MaxJitter == 1         \* longest a timer fires late, in ticks
MaxAssets == 2         \* longest assets list of a GasFreeAddressInfo
MaxAttempts == 2       \* settlement attempts the facilitator receives
MaxNow == 3            \* last tick of the facilitator's clock
MaxRegistered == 2     \* register calls on one X402Client
MaxPolicies == 1       \* registerPolicy calls on one X402Client
MaxAccepts == 2        \* longest accepts list of a 402 challenge

-----------------------------------------------------------------------------
(* String helpers: String.prototype.toUpperCase *)

LowerAlphabet == "abcdefghijklmnopqrstuvwxyz"
UpperAlphabet == "ABCDEFGHIJKLMNOPQRSTUVWXYZ"

CharAt(s, i) == SubSeq(s, i, i)

IndexIn(c, alphabet) ==
  IF \E i \in 1..Len(alphabet) : CharAt(alphabet, i) = c
  THEN CHOOSE i \in 1..Len(alphabet) : CharAt(alphabet, i) = c
  ELSE 0

UpperChar(c) ==
  LET i == IndexIn(c, LowerAlphabet)
  IN IF i = 0 THEN c ELSE CharAt(UpperAlphabet, i)

RECURSIVE toUpperCase(_)
toUpperCase(s) ==
  IF Len(s) = 0 THEN ""
  ELSE UpperChar(CharAt(s, 1)) \o toUpperCase(SubSeq(s, 2, Len(s)))

Undefined == "<undefined>"

-----------------------------------------------------------------------------
(* String helpers: startsWith, slice, padStart, BigInt(), toString() *)

startsWith(s, prefix) ==
  Len(s) >= Len(prefix) /\ SubSeq(s, 1, Len(prefix)) = prefix

\* s.slice(n) for n >= 0
sliceFrom(s, n) == IF n >= Len(s) THEN "" ELSE SubSeq(s, n + 1, Len(s))

\* s.slice(-n): the last n characters
sliceLast(s, n) == IF n >= Len(s) THEN s ELSE SubSeq(s, Len(s) - n + 1, Len(s))

\* s.slice(0, -n): all but the last n characters
sliceDropLast(s, n) == IF n >= Len(s) THEN "" ELSE SubSeq(s, 1, Len(s) - n)

RECURSIVE padStart(_, _, _)
padStart(s, n, c) == IF Len(s) >= n THEN s ELSE padStart(c \o s, n, c)

\* every character of s is in alphabet, and s is not empty: /^[...]+$/
AllCharsIn(s, alphabet) ==
  /\ Len(s) > 0
  /\ \A i \in 1..Len(s) : IndexIn(CharAt(s, i), alphabet) # 0

DecimalDigits == "0123456789"

\* BigInt(s) for a decimal string s; BigInt('') is 0n
RECURSIVE BigInt(_)
BigInt(s) ==
  IF Len(s) = 0 THEN 0
  ELSE BigInt(SubSeq(s, 1, Len(s) - 1)) * 10
         + (IndexIn(CharAt(s, Len(s)), DecimalDigits) - 1)

\* n.toString() for n >= 0
RECURSIVE toString(_)
toString(n) ==
  IF n < 10 THEN CharAt(DecimalDigits, n + 1)
  ELSE toString(n \div 10) \o CharAt(DecimalDigits, (n % 10) + 1)

-----------------------------------------------------------------------------
(* Address conversion (address.ts) *)

BASE58_ALPHABET == "123456789ABCDEFGHJKLMNPQRSTUVWXYZabcdefghijkmnopqrstuvwxyz"

ZERO_ADDRESS_HEX == "0x0000000000000000000000000000000000000000"

HexDigits == "0123456789abcdef"
HexChars == "0123456789abcdefABCDEF"

\* a BigInt as the sequence of its limbs of six base-16 digits, most
\* significant first; 0n is the empty sequence
LimbBase == 16 ^ 6

RECURSIVE CarryDigits(_)
CarryDigits(c) ==
  IF c = 0 THEN <<>> ELSE CarryDigits(c \div LimbBase) \o <<c % LimbBase>>

\* num * m + carry (the set binders make TLC evaluate each intermediate value
\* once)
RECURSIVE BigMulAdd(_, _, _)
BigMulAdd(num, m, carry) ==
  IF Len(num) = 0 THEN CarryDigits(carry)
  ELSE CHOOSE r \in
         { BigMulAdd(SubSeq(num, 1, Len(num) - 1), m, v \div LimbBase)
             \o <<v % LimbBase>> :
             v \in {num[Len(num)] * m + carry} } : TRUE

\* n.toString(16) for a limb n
RECURSIVE LimbToHex(_)
LimbToHex(n) ==
  IF n < 16 THEN CharAt(HexDigits, n + 1)
  ELSE LimbToHex(n \div 16) \o CharAt(HexDigits, (n % 16) + 1)

RECURSIVE BigToHex(_, _)
BigToHex(num, i) ==
  IF i > Len(num) THEN ""
  ELSE (IF i = 1 THEN LimbToHex(num[i])
        ELSE padStart(LimbToHex(num[i]), 6, "0"))
       \o BigToHex(num, i + 1)

\* num.toString(16)
BigToString16(num) == IF Len(num) = 0 THEN "0" ELSE BigToHex(num, 1)

\* the loop of base58ToEvmHex: num = num * 58 + value for each character;
\* <<-1>> when a character is not in the alphabet
RECURSIVE Base58Decode(_, _)
Base58Decode(addr, num) ==
  IF Len(addr) = 0 THEN num
  ELSE LET value == IndexIn(CharAt(addr, 1), BASE58_ALPHABET)
       IN IF value = 0 THEN <<-1>>
          ELSE CHOOSE r \in
                 { Base58Decode(SubSeq(addr, 2, Len(addr)), n) :
                     n \in {BigMulAdd(num, 58, value - 1)} } : TRUE

base58ToEvmHex(addr) ==
  LET num == Base58Decode(addr, <<>>)
  IN IF num = <<-1>> THEN ZERO_ADDRESS_HEX
     ELSE LET hex0 == BigToString16(num)
              hex == IF Len(hex0) % 2 # 0 THEN "0" \o hex0 ELSE hex0
              withoutChecksum == sliceDropLast(hex, 8)
              body == IF startsWith(withoutChecksum, "41")
                      THEN sliceFrom(withoutChecksum, 2)
                      ELSE withoutChecksum
          IN "0x" \o padStart(body, 40, "0")

\* /^T0+$/
IsTZeros(addr) ==
  /\ Len(addr) >= 2
  /\ CharAt(addr, 1) = "T"
  /\ \A i \in 2..Len(addr) : CharAt(addr, i) = "0"

toEvmHex(addr) ==
  IF addr = Undefined \/ addr = "" THEN ZERO_ADDRESS_HEX
  ELSE IF startsWith(addr, "0x") THEN addr
  ELSE IF IsTZeros(addr) THEN ZERO_ADDRESS_HEX
  ELSE IF AllCharsIn(addr, HexChars)
       THEN IF startsWith(addr, "41") /\ Len(addr) = 42
            THEN "0x" \o sliceFrom(addr, 2)
            ELSE "0x" \o padStart(sliceLast(addr, 40), 40, "0")
  ELSE IF startsWith(addr, "T") THEN base58ToEvmHex(addr)
  ELSE ZERO_ADDRESS_HEX

\* console.warn is called by toEvmHex(addr): a character outside the Base58
\* alphabet, or a format that is none of the handled ones
toEvmHexWarns(addr) ==
  IF addr = Undefined \/ addr = "" THEN FALSE
  ELSE IF startsWith(addr, "0x") THEN FALSE
  ELSE IF IsTZeros(addr) THEN FALSE
  ELSE IF AllCharsIn(addr, HexChars) THEN FALSE
  ELSE IF startsWith(addr, "T") THEN ~AllCharsIn(addr, BASE58_ALPHABET)
  ELSE TRUE

\* the value of a hex digit, upper or lower case; -1 for any other character
HexValue(c) ==
  LET i == IndexIn(c, HexChars)
  IN IF i = 0 THEN -1 ELSE IF i <= 16 THEN i - 1 ELSE i - 7

\* BigInt('0x' + hex) as limbs; <<-1>> where BigInt throws a SyntaxError
RECURSIVE HexToBig(_, _)
HexToBig(hex, num) ==
  IF Len(hex) = 0 THEN num
  ELSE IF HexValue(CharAt(hex, 1)) < 0 THEN <<-1>>
  ELSE CHOOSE r \in
         { HexToBig(SubSeq(hex, 2, Len(hex)), n) :
             n \in {BigMulAdd(num, 16, HexValue(CharAt(hex, 1)))} } : TRUE

\* the limbs without leading zero limbs
RECURSIVE StripZeroLimbs(_)
StripZeroLimbs(num) ==
  IF Len(num) > 0 /\ num[1] = 0 THEN StripZeroLimbs(Tail(num)) ELSE num

\* the limbs of (rem * LimbBase^Len(num) + num) / m, leading zeros kept
RECURSIVE BigQuotient(_, _, _)
BigQuotient(num, m, rem) ==
  IF Len(num) = 0 THEN <<>>
  ELSE CHOOSE r \in
         { <<v \div m>> \o BigQuotient(Tail(num), m, v % m) :
             v \in {rem * LimbBase + num[1]} } : TRUE

\* (rem * LimbBase^Len(num) + num) % m
RECURSIVE BigRemainder(_, _, _)
BigRemainder(num, m, rem) ==
  IF Len(num) = 0 THEN rem
  ELSE BigRemainder(Tail(num), m, (rem * LimbBase + num[1]) % m)

\* the loop of toBase58: while (num > 0) { result = BASE58_ALPHABET[num % 58]
\* + result; num = num / 58 }
RECURSIVE Base58Digits(_, _)
Base58Digits(num, result) ==
  IF Len(num) = 0 THEN result
  ELSE CHOOSE r \in
         { Base58Digits(q, CharAt(BASE58_ALPHABET, d + 1) \o result) :
             q \in {StripZeroLimbs(BigQuotient(num, 58, 0))},
             d \in {BigRemainder(num, 58, 0)} } : TRUE

\* toBase58 throws: BigInt('0x41' + ...) of something that is not hex
toBase58Throws(addr) ==
  startsWith(addr, "0x") /\ HexToBig("41" \o sliceFrom(addr, 2), <<>>) = <<-1>>

\* toBase58(addr): the Base58 digits of 0x41 followed by the address bytes
toBase58(addr) ==
  IF ~startsWith(addr, "0x") THEN addr
  ELSE LET result == Base58Digits(
                       StripZeroLimbs(HexToBig("41" \o sliceFrom(addr, 2), <<>>)), "")
       IN IF result = "" THEN "T" ELSE result

\* EvmAddressConverter.toEvmFormat
EvmToEvmFormat(address) ==
  IF ~startsWith(address, "0x") THEN "0x" \o address ELSE address

\* toEvmHex on the addresses of the configuration and of the offers,
\* evaluated once
ConvertedAddresses ==
  [a \in {"T9yD14Nj9j7xAB4dbGeiX9h8unkKHxuWwb",
          "TFxDcGvS7zfQrS1YzcCMp673ta2NHHzsiH",
          "THQGuFzL87ZqhxkgqYEryRAd7gqFqL5rdc",
          "TXYZopYRdj2D9XRtbG411XZZ3kM5VkAeBf",
          "TGjgvdTWWrybVLaVeFqSyVqJQWjxqRYbaK",
          "TMVQGm1qAQYVdetCeGRRkTWYYrLXuHK2HC",
          "TKtWbdzEq5ss9vTS9kwRhBp5mXmBfBns3E",
          "TLCvf7MktLG7XkbJRyUwnvCeDnaEXYkcbC",
          "TT8rEWbCoNX7vpEUauxb7rWJsTgs8vDLAn"} |-> toEvmHex(a)]

\* TronAddressConverter.toEvmFormat
TronToEvmFormat(address) ==
  IF address \in DOMAIN ConvertedAddresses THEN ConvertedAddresses[address]
  ELSE toEvmHex(address)

-----------------------------------------------------------------------------
(* GasFreeSubmitResponseData, as the relay may report it *)

\* state: the five declared values, and two the relay spells in lower case
RelayStates == {"WAITING", "INPROGRESS", "CONFIRMING", "SUCCEED", "FAILED",
                "confirming", "failed"}

\* txnState?: optional
RelayTxnStates == {Undefined, "INIT", "NOT_ON_CHAIN", "ON_CHAIN", "SOLIDITY",
                   "ON_CHAIN_FAILED", "on_chain"}

NoStatus == [id |-> 0, state |-> Undefined, txnState |-> Undefined]

\* the object the n-th getStatus call resolves to; id tells the objects apart
GasFreeSubmitResponseData(n) ==
  [id : {n}, state : RelayStates, txnState : RelayTxnStates]

\* toUpperCase on the strings a status carries, evaluated once
UpperCased ==
  [s \in RelayStates \cup RelayTxnStates \cup {""} |-> toUpperCase(s)]

\* statusData.state.toUpperCase()
StateOf(s) == UpperCased[s.state]

\* (statusData.txnState || '').toUpperCase()
TxnStateOf(s) == UpperCased[IF s.txnState = Undefined THEN "" ELSE s.txnState]

-----------------------------------------------------------------------------
(* Network configuration (config.ts) and the addresses the model uses *)

TRON_NILE == "tron:nile"
BSC_TESTNET == "eip155:97"

TRON_ZERO_ADDRESS == "T9yD14Nj9j7xAB4dbGeiX9h8unkKHxuWwb"
EVM_ZERO_ADDRESS == "0x0000000000000000000000000000000000000000"

\* CHAIN_IDS / getChainId; chain ids are kept as decimal strings
getChainId(network) ==
  CASE network = TRON_NILE -> "3448148188"
    [] network = BSC_TESTNET -> "97"

\* PAYMENT_PERMIT_ADDRESSES / getPaymentPermitAddress
getPaymentPermitAddress(network) ==
  CASE network = TRON_NILE -> "TFxDcGvS7zfQrS1YzcCMp673ta2NHHzsiH"
    [] network = BSC_TESTNET -> "0x1825bB32db3443dEc2cc7508b2D818fc13EaD878"

\* GASFREE_CONTROLLER_ADDRESSES: the verifyingContract of the GasFree domain
getGasFreeControllerAddress(network) ==
  CASE network = TRON_NILE -> "THQGuFzL87ZqhxkgqYEryRAd7gqFqL5rdc"
    [] OTHER -> TRON_ZERO_ADDRESS

\* KIND_MAP
KIND_MAP(kind) ==
  CASE kind = "PAYMENT_ONLY" -> 0
    [] kind = "PAYMENT_AND_DELIVERY" -> 1

\* tokens (tokens.ts)
USDT_NILE == "TXYZopYRdj2D9XRtbG411XZZ3kM5VkAeBf"
USDD_NILE == "TGjgvdTWWrybVLaVeFqSyVqJQWjxqRYbaK"
USDT_BSC_TESTNET == "0x337610d27c682E347C9cD60BD4b3b107C9d34dDd"
USDC_BSC_TESTNET == "0x64544969ed7EBf5f083679233325356EbE738930"

\* findByAddress(network, address)?.name ?? 'Unknown Token'; the registry
\* compares lower-cased addresses, and the model's EVM assets are the two
\* registry entries as spelled there
TokenName(network, asset) ==
  CASE network = BSC_TESTNET /\ asset = USDT_BSC_TESTNET -> "Tether USD"
    [] network = BSC_TESTNET /\ asset = USDC_BSC_TESTNET -> "USD Coin"
    [] OTHER -> "Unknown Token"

\* signer.getAddress()
TronBuyer == "TMVQGm1qAQYVdetCeGRRkTWYYrLXuHK2HC"
EvmBuyer == "0x70997970C51812dc3A010C7d01b50e0d17dc79C8"

\* merchants and facilitators of the server's offers
TronPayees == {"TKtWbdzEq5ss9vTS9kwRhBp5mXmBfBns3E",
               "TLCvf7MktLG7XkbJRyUwnvCeDnaEXYkcbC"}
EvmPayees == {"0x1825bB32db3443dEc2cc7508b2D818fc13EaD878",
              "0x3C44CdDdB6a900fa2b585dd299e03d12FA4293BC"}
TronFacilitator == "TT8rEWbCoNX7vpEUauxb7rWJsTgs8vDLAn"
EvmFacilitator == "0x90F79bf6EB2c4f870365E785982E1f101E93b906"

GasFreeWallet == "TLCvf7MktLG7XkbJRyUwnvCeDnaEXYkcbC"

Resource == "https://example.com/res"

\* Math.floor(Date.now() / 1000) when createPaymentPayload runs
NowSeconds == 1700000000

-----------------------------------------------------------------------------
(* PaymentRequirements, extensions, GasFreeAddressInfo *)

Amounts == {"1000000", "4500000"}
FeeAmounts == {"0", "100000", "2000000"}

NoFee == [feeAmount |-> Undefined, feeTo |-> Undefined, caller |-> Undefined]

\* extra?: { fee?: { feeTo, feeAmount, caller? } }
Extras(facilitator, callers) ==
  {[fee |-> NoFee]} \cup
  [fee : [feeAmount : FeeAmounts, feeTo : {facilitator}, caller : callers]]

PaymentRequirements(scheme, network, assets, payees, facilitator, callers) ==
  [scheme : {scheme}, network : {network}, amount : Amounts, asset : assets,
   payTo : payees, extra : Extras(facilitator, callers)]

NoRequirements ==
  [scheme |-> Undefined, network |-> Undefined, amount |-> Undefined,
   asset |-> Undefined, payTo |-> Undefined, extra |-> [fee |-> NoFee]]

\* PaymentPermitContext.meta; 0 and '' stand for a missing field
NoMeta ==
  [kind |-> Undefined, paymentId |-> "", nonce |-> Undefined,
   validAfter |-> 0, validBefore |-> 0]

\* the meta of a paymentPermitContext as the server sends it: a window that
\* is open now and one whose end lies before its start
PermitMetas ==
  [kind : {"PAYMENT_ONLY"}, paymentId : {"0x1234567890abcdef1234567890abcdef"},
   nonce : {"7"}, validAfter : {NowSeconds - 60},
   validBefore : {NowSeconds + 600, NowSeconds - 120}]

\* extensions?: { paymentPermitContext?, skipBalanceCheck? }
Extensions ==
  [hasContext : BOOLEAN, meta : PermitMetas \cup {NoMeta},
   skipBalanceCheck : BOOLEAN]

WellFormedExtensions(ext) == ext.hasContext <=> ext.meta # NoMeta

NoExtensions == [hasContext |-> FALSE, meta |-> NoMeta, skipBalanceCheck |-> FALSE]

\* GasFreeAsset: balance and transferFee as the relay sends them
GasFreeAssets ==
  [tokenAddress : {USDT_NILE, USDD_NILE},
   balance : {"0", "5000000"},
   transferFee : {Undefined, "1000000"}]

RECURSIVE SeqsUpTo(_, _)
SeqsUpTo(S, n) ==
  IF n = 0 THEN {<<>>}
  ELSE SeqsUpTo(S, n - 1) \cup
       {Append(q, x) : q \in {r \in SeqsUpTo(S, n - 1) : Len(r) = n - 1}, x \in S}

GasFreeAddressInfo ==
  [gasFreeAddress : {Undefined, GasFreeWallet}, active : BOOLEAN,
   nonce : {1}, assets : SeqsUpTo(GasFreeAssets, MaxAssets)]

NoAddressInfo ==
  [gasFreeAddress |-> Undefined, active |-> FALSE, nonce |-> 0, assets |-> <<>>]

-----------------------------------------------------------------------------
(* GasFreeTronClientMechanism.createPaymentPayload (mechanisms/gasfree.ts) *)

\* accountInfo.assets.find(a => a.tokenAddress === requirements.asset): the
\* index of the first match, 0 when there is none
FindAsset(assets, tokenAddress) ==
  IF \E i \in 1..Len(assets) : assets[i].tokenAddress = tokenAddress
  THEN CHOOSE i \in 1..Len(assets) :
         /\ assets[i].tokenAddress = tokenAddress
         /\ \A j \in 1..(i - 1) : assets[j].tokenAddress # tokenAddress
  ELSE 0

\* x || fallback for a string x
OrElse(x, fallback) == IF x = Undefined \/ x = "" THEN fallback ELSE x

\* transferFee = asset ? BigInt(asset.transferFee || '0') : BigInt(0)
TransferFee(info, req) ==
  LET i == FindAsset(info.assets, req.asset)
  IN IF i = 0 THEN 0 ELSE BigInt(OrElse(info.assets[i].transferFee, "0"))

\* maxFee without the raise to the protocol's transferFee
GasFreeMaxFeeNoFloor(info, req) == OrElse(req.extra.fee.feeAmount, "100000")

\* let maxFee = requirements.extra?.fee?.feeAmount || '100000', raised to
\* transferFee when below it
GasFreeMaxFee(info, req) ==
  LET maxFee == OrElse(req.extra.fee.feeAmount, "100000")
  IN IF BigInt(maxFee) < TransferFee(info, req)
     THEN toString(TransferFee(info, req))
     ELSE maxFee

\* the precondition checks without the activation check
GasFreePreconditionNoActivation(info, req, ext) ==
  IF info.gasFreeAddress = Undefined \/ info.gasFreeAddress = ""
  THEN "no_gasfree_address"
  ELSE IF ~ext.skipBalanceCheck
  THEN LET i == FindAsset(info.assets, req.asset)
       IN IF i = 0 THEN "asset_not_found"
          ELSE IF BigInt(OrElse(info.assets[i].balance, "0"))
                    < BigInt(req.amount) + BigInt(GasFreeMaxFee(info, req))
          THEN "insufficient_balance"
          ELSE "ok"
  ELSE "ok"

\* the precondition checks with the balance compared to the amount alone
GasFreePreconditionAmountOnly(info, req, ext) ==
  IF info.gasFreeAddress = Undefined \/ info.gasFreeAddress = ""
  THEN "no_gasfree_address"
  ELSE IF ~info.active THEN "not_activated"
  ELSE IF ~ext.skipBalanceCheck
  THEN LET i == FindAsset(info.assets, req.asset)
       IN IF i = 0 THEN "asset_not_found"
          ELSE IF BigInt(OrElse(info.assets[i].balance, "0")) < BigInt(req.amount)
          THEN "insufficient_balance"
          ELSE "ok"
  ELSE "ok"

\* the precondition checks with an absent asset read as a balance of zero
GasFreePreconditionAbsentAsZero(info, req, ext) ==
  IF info.gasFreeAddress = Undefined \/ info.gasFreeAddress = ""
  THEN "no_gasfree_address"
  ELSE IF ~info.active THEN "not_activated"
  ELSE IF ~ext.skipBalanceCheck
  THEN LET i == FindAsset(info.assets, req.asset)
           balance == IF i = 0 THEN 0
                      ELSE BigInt(OrElse(info.assets[i].balance, "0"))
       IN IF balance < BigInt(req.amount) + BigInt(GasFreeMaxFee(info, req))
          THEN "insufficient_balance"
          ELSE "ok"
  ELSE "ok"

\* the throws between getAddressInfo and signTypedData, in the code's order
GasFreePrecondition(info, req, ext) ==
  IF info.gasFreeAddress = Undefined \/ info.gasFreeAddress = ""
  THEN "no_gasfree_address"
  ELSE IF ~info.active THEN "not_activated"
  ELSE IF ~ext.skipBalanceCheck
  THEN LET i == FindAsset(info.assets, req.asset)
       IN IF i = 0 THEN "asset_not_found"
          ELSE IF BigInt(OrElse(info.assets[i].balance, "0"))
                    < BigInt(req.amount) + BigInt(GasFreeMaxFee(info, req))
          THEN "insufficient_balance"
          ELSE "ok"
  ELSE "ok"

\* const deadline = meta.validBefore || Math.floor(Date.now() / 1000) + 3600
GasFreeDeadline(ext) ==
  IF ext.meta.validBefore # 0 THEN ext.meta.validBefore ELSE NowSeconds + 3600

\* params with the receiver taken from the fee recipient
GasFreeParamsFeeReceiver(info, req, ext, userAddress) ==
  [token |-> req.asset,
   serviceProvider |-> req.payTo,
   user |-> userAddress,
   receiver |-> OrElse(req.extra.fee.feeTo, userAddress),
   value |-> req.amount,
   maxFee |-> GasFreeMaxFee(info, req),
   deadline |-> toString(GasFreeDeadline(ext)),
   version |-> "1",
   nonce |-> toString(info.nonce)]

\* const params = { token, serviceProvider, user, receiver, value, maxFee,
\* deadline, version, nonce }
GasFreeParams(info, req, ext, userAddress) ==
  [token |-> req.asset,
   serviceProvider |-> req.payTo,
   user |-> userAddress,
   receiver |-> req.payTo,
   value |-> req.amount,
   maxFee |-> GasFreeMaxFee(info, req),
   deadline |-> toString(GasFreeDeadline(ext)),
   version |-> "1",
   nonce |-> toString(info.nonce)]

\* gasFree.assembleGasFreeTransactionJson(params): the SDK's domain and the
\* message made of the params
GasFreeTypedData(network, params) ==
  [domain |-> [name |-> "GasFreeController", version |-> "V1.0.0",
               chainId |-> getChainId(network),
               verifyingContract |-> getGasFreeControllerAddress(network)],
   primaryType |-> Undefined,
   message |-> params]

\* the paymentPermit with the window's end taken from the context's meta
GasFreePaymentPermitMetaWindow(info, req, ext, userAddress, typed) ==
  [meta |-> [kind |-> "PAYMENT_ONLY",
             paymentId |-> ext.meta.paymentId,
             nonce |-> toString(info.nonce),
             validAfter |-> ext.meta.validAfter,
             validBefore |-> ext.meta.validBefore],
   buyer |-> userAddress,
   caller |-> typed.domain.verifyingContract,
   payment |-> [payToken |-> req.asset, payAmount |-> req.amount,
                payTo |-> req.payTo],
   fee |-> [feeTo |-> req.payTo, feeAmount |-> typed.message.maxFee],
   delivery |-> [receiveToken |-> TRON_ZERO_ADDRESS,
                 miniReceiveAmount |-> "0", tokenId |-> "0"]]

\* const paymentPermit: PaymentPermit = { ... }
GasFreePaymentPermit(info, req, ext, userAddress, typed) ==
  [meta |-> [kind |-> "PAYMENT_ONLY",
             paymentId |-> ext.meta.paymentId,
             nonce |-> toString(info.nonce),
             validAfter |-> ext.meta.validAfter,
             validBefore |-> GasFreeDeadline(ext)],
   buyer |-> userAddress,
   caller |-> typed.domain.verifyingContract,
   payment |-> [payToken |-> req.asset, payAmount |-> req.amount,
                payTo |-> req.payTo],
   fee |-> [feeTo |-> req.payTo, feeAmount |-> typed.message.maxFee],
   delivery |-> [receiveToken |-> TRON_ZERO_ADDRESS,
                 miniReceiveAmount |-> "0", tokenId |-> "0"]]

\* the payload with the signed fee written into the accepted requirements
GasFreePayloadFeeWritten(req, ext, signature, permit, gasfreeAddress) ==
  [x402Version |-> 2,
   resource |-> [url |-> Resource],
   accepted |-> [req EXCEPT !.extra.fee.feeAmount = permit.fee.feeAmount],
   payload |-> [signature |-> signature, paymentPermit |-> permit],
   extensions |-> [given |-> ext, gasfreeAddress |-> gasfreeAddress,
                   scheme |-> "gasfree_exact"]]

\* return { x402Version, resource, accepted: requirements, payload,
\* extensions: { ...extensions, gasfreeAddress, scheme } }
GasFreePayload(req, ext, signature, permit, gasfreeAddress) ==
  [x402Version |-> 2,
   resource |-> [url |-> Resource],
   accepted |-> req,
   payload |-> [signature |-> signature, paymentPermit |-> permit],
   extensions |-> [given |-> ext, gasfreeAddress |-> gasfreeAddress,
                   scheme |-> "gasfree_exact"]]

-----------------------------------------------------------------------------
(* ExactPermitTronClientMechanism (mechanisms/exact.ts) and                *)
(* ExactPermitEvmClientMechanism (mechanisms/exactEvm.ts)                  *)

IsTronMechanism(m) == m \in {"exact_permit_tron", "gasfree_exact"}

\* this.addressConverter.toEvmFormat
toEvmFormat(m, address) ==
  IF IsTronMechanism(m) THEN TronToEvmFormat(address) ELSE EvmToEvmFormat(address)

\* const zeroAddress = TRON_ZERO_ADDRESS | EVM_ZERO_ADDRESS
ZeroAddressOf(m) == IF IsTronMechanism(m) THEN TRON_ZERO_ADDRESS ELSE EVM_ZERO_ADDRESS

BuyerOf(m) == IF IsTronMechanism(m) THEN TronBuyer ELSE EvmBuyer

\* const permit: PaymentPermit = { meta, buyer, caller, payment, fee }
PermitOf(m, req, ext) ==
  [meta |-> [kind |-> ext.meta.kind,
             paymentId |-> ext.meta.paymentId,
             nonce |-> ext.meta.nonce,
             validAfter |-> ext.meta.validAfter,
             validBefore |-> ext.meta.validBefore],
   buyer |-> BuyerOf(m),
   caller |-> OrElse(req.extra.fee.caller, ZeroAddressOf(m)),
   payment |-> [payToken |-> req.asset, payAmount |-> req.amount,
                payTo |-> req.payTo],
   fee |-> [feeTo |-> OrElse(req.extra.fee.feeTo, ZeroAddressOf(m)),
            feeAmount |-> OrElse(req.extra.fee.feeAmount, "0")]]

\* the arguments of this.signer.ensureAllowance(payToken, totalAmount, network)
EnsureAllowanceArgs(permit, req) ==
  [token |-> permit.payment.payToken,
   amount |-> BigInt(permit.payment.payAmount) + BigInt(permit.fee.feeAmount),
   network |-> req.network]

\* const domain = { name: 'PaymentPermit', chainId, verifyingContract }
PermitDomain(m, req) ==
  [name |-> "PaymentPermit",
   chainId |-> getChainId(req.network),
   verifyingContract |-> toEvmFormat(m, getPaymentPermitAddress(req.network))]

\* permitForSigning with the payment recipient taken from the fee
PermitForSigningFeeRecipient(m, permit) ==
  [meta |-> [kind |-> KIND_MAP(permit.meta.kind),
             paymentId |-> permit.meta.paymentId,
             nonce |-> BigInt(permit.meta.nonce),
             validAfter |-> permit.meta.validAfter,
             validBefore |-> permit.meta.validBefore],
   buyer |-> toEvmFormat(m, permit.buyer),
   caller |-> toEvmFormat(m, permit.caller),
   payment |-> [payToken |-> toEvmFormat(m, permit.payment.payToken),
                payAmount |-> BigInt(permit.payment.payAmount),
                payTo |-> toEvmFormat(m, permit.fee.feeTo)],
   fee |-> [feeTo |-> toEvmFormat(m, permit.fee.feeTo),
            feeAmount |-> BigInt(permit.fee.feeAmount)]]

\* const permitForSigning = { ... }: kind as uint8, uint256 values as BigInt,
\* all addresses in EVM hex
PermitForSigning(m, permit) ==
  [meta |-> [kind |-> KIND_MAP(permit.meta.kind),
             paymentId |-> permit.meta.paymentId,
             nonce |-> BigInt(permit.meta.nonce),
             validAfter |-> permit.meta.validAfter,
             validBefore |-> permit.meta.validBefore],
   buyer |-> toEvmFormat(m, permit.buyer),
   caller |-> toEvmFormat(m, permit.caller),
   payment |-> [payToken |-> toEvmFormat(m, permit.payment.payToken),
                payAmount |-> BigInt(permit.payment.payAmount),
                payTo |-> toEvmFormat(m, permit.payment.payTo)],
   fee |-> [feeTo |-> toEvmFormat(m, permit.fee.feeTo),
            feeAmount |-> BigInt(permit.fee.feeAmount)]]

\* return { x402Version, resource, accepted: requirements, payload,
\* extensions: {} }
PermitPayload(req, signature, permit) ==
  [x402Version |-> 2,
   resource |-> [url |-> Resource],
   accepted |-> req,
   payload |-> [signature |-> signature, paymentPermit |-> permit],
   extensions |-> [empty |-> TRUE]]

-----------------------------------------------------------------------------
(* ExactEvmClientMechanism (mechanisms/nativeExactEvm.ts, nativeExact.ts) *)

DEFAULT_VALIDITY_SECONDS == 3600

\* createValidityWindow(): [now - 30, now + duration]
createValidityWindow == <<NowSeconds - 30, NowSeconds + DEFAULT_VALIDITY_SECONDS>>

\* createNonce(): 32 random bytes; two of the values it can return
Nonces == {"0x0000000000000000000000000000000000000000000000000000000000000001",
           "0xa3f1000000000000000000000000000000000000000000000000000000000002"}

\* const authorization: TransferAuthorization = { from, to, value, ... }
TransferAuthorization(req, nonce) ==
  [from |-> EvmToEvmFormat(EvmBuyer),
   to |-> EvmToEvmFormat(req.payTo),
   value |-> req.amount,
   validAfter |-> toString(createValidityWindow[1]),
   validBefore |-> toString(createValidityWindow[2]),
   nonce |-> nonce]

\* buildEip712Domain(tokenName, '1', chainId, toEvmFormat(requirements.asset))
buildEip712Domain(tokenName, tokenVersion, chainId, verifyingContract) ==
  [name |-> tokenName, version |-> tokenVersion, chainId |-> chainId,
   verifyingContract |-> verifyingContract]

\* buildEip712Message(auth, toSigningAddress)
buildEip712Message(auth) ==
  [from |-> EvmToEvmFormat(auth.from),
   to |-> EvmToEvmFormat(auth.to),
   value |-> BigInt(auth.value),
   validAfter |-> BigInt(auth.validAfter),
   validBefore |-> BigInt(auth.validBefore),
   nonce |-> auth.nonce]

\* return { ..., accepted: requirements, payload: { signature },
\* extensions: { transferAuthorization } }
ExactEvmPayload(req, signature, authorization) ==
  [x402Version |-> 2,
   resource |-> [url |-> Resource],
   accepted |-> req,
   payload |-> [signature |-> signature, paymentPermit |-> Undefined],
   extensions |-> [transferAuthorization |-> authorization]]

-----------------------------------------------------------------------------
(* createPaymentPayload as a process: one call at a time *)

NoLocals == [none |-> TRUE]
NoPayload == [none |-> TRUE]

\* the mock signer's signature
Signature == "0xabababababababababababababababababababababababababababababababab"

MechInit ==
  /\ mpc = "idle"
  /\ mech = "none"
  /\ requirements = NoRequirements
  /\ issued = NoRequirements
  /\ extensions = NoExtensions
  /\ accountInfo = NoAddressInfo
  /\ locals = NoLocals
  /\ allowanceCalls = <<>>
  /\ signCalls = <<>>
  /\ mresult = NoPayload
  /\ merror = "none"
  /\ apiCalls = <<>>
  /\ allowanceResults = <<>>

\* GasFreeTronClientMechanism.createPaymentPayload up to
\* await apiClient.getAddressInfo(userAddress)
GasFreeCreate(req, ext) ==
  /\ mpc = "idle"
  /\ WellFormedExtensions(ext)
  /\ mech' = "gasfree_exact"
  /\ requirements' = req
  /\ issued' = req
  /\ extensions' = ext
  /\ mpc' = "getAddressInfo"
  /\ UNCHANGED <<accountInfo, locals, allowanceCalls, signCalls, mresult, merror>>
  /\ UNCHANGED <<apiCalls, allowanceResults>>

\* getAddressInfo resolves; the checks, the fee and the params follow, up to
\* await this.signer.signTypedData(domain, types, message)
GetAddressInfoReturns(info) ==
  /\ mpc = "getAddressInfo"
  /\ accountInfo' = info
  /\ LET check == GasFreePrecondition(info, requirements, extensions)
         typed == GasFreeTypedData(requirements.network,
                    GasFreeParams(info, requirements, extensions, TronBuyer))
     IN IF check # "ok"
        THEN /\ mpc' = "failed"
             /\ merror' = check
             /\ UNCHANGED <<locals, signCalls>>
        ELSE /\ mpc' = "signTypedData"
             /\ signCalls' = Append(signCalls, typed)
             /\ locals' = [typed |-> typed, gasfreeAddress |-> info.gasFreeAddress]
             /\ UNCHANGED merror
  /\ UNCHANGED <<mech, requirements, issued, extensions, allowanceCalls, mresult>>
  /\ apiCalls' = Append(apiCalls, [method |-> "getAddressInfo", result |-> info])
  /\ UNCHANGED allowanceResults

\* getAddressInfo throws (HTTP error or code other than 200)
GetAddressInfoThrows ==
  /\ mpc = "getAddressInfo"
  /\ mpc' = "failed"
  /\ merror' = "gasfree_api_error"
  /\ UNCHANGED <<mech, requirements, issued, extensions, accountInfo, locals,
                 allowanceCalls, signCalls, mresult>>
  /\ apiCalls' = Append(apiCalls, [method |-> "getAddressInfo", result |-> Undefined])
  /\ UNCHANGED allowanceResults

\* createPaymentPayload without the check of extensions.paymentPermitContext
PermitCreateUnchecked(m, req, ext) ==
  /\ mpc = "idle"
  /\ WellFormedExtensions(ext)
  /\ ~ext.skipBalanceCheck
  /\ mech' = m
  /\ requirements' = req
  /\ issued' = req
  /\ extensions' = ext
  /\ mpc' = "ensureAllowance"
  /\ locals' = [permit |-> PermitOf(m, req, ext)]
  /\ allowanceCalls' =
       Append(allowanceCalls, EnsureAllowanceArgs(PermitOf(m, req, ext), req))
  /\ UNCHANGED <<accountInfo, signCalls, mresult, merror>>
  /\ UNCHANGED <<apiCalls, allowanceResults>>

\* ExactPermit{Tron,Evm}ClientMechanism.createPaymentPayload up to
\* await this.signer.ensureAllowance(...)
PermitCreate(m, req, ext) ==
  /\ mpc = "idle"
  /\ WellFormedExtensions(ext)
  /\ ~ext.skipBalanceCheck
  /\ mech' = m
  /\ requirements' = req
  /\ issued' = req
  /\ extensions' = ext
  /\ IF ~ext.hasContext
     THEN /\ mpc' = "failed"
          /\ merror' = "PermitValidationError"
          /\ UNCHANGED <<locals, allowanceCalls>>
     ELSE /\ mpc' = "ensureAllowance"
          /\ locals' = [permit |-> PermitOf(m, req, ext)]
          /\ allowanceCalls' =
               Append(allowanceCalls, EnsureAllowanceArgs(PermitOf(m, req, ext), req))
          /\ UNCHANGED merror
  /\ UNCHANGED <<accountInfo, signCalls, mresult>>
  /\ UNCHANGED <<apiCalls, allowanceResults>>

\* ensureAllowance resolves (its boolean is not looked at); the domain and
\* permitForSigning follow, up to await this.signer.signTypedData(...)
EnsureAllowanceReturns(approved) ==
  /\ mpc = "ensureAllowance"
  /\ mpc' = "signTypedData"
  /\ signCalls' = Append(signCalls,
       [domain |-> PermitDomain(mech, requirements),
        primaryType |-> Undefined,
        message |-> PermitForSigning(mech, locals.permit)])
  /\ UNCHANGED <<mech, requirements, issued, extensions, accountInfo, locals,
                 allowanceCalls, mresult, merror>>
  /\ allowanceResults' = Append(allowanceResults, approved)
  /\ UNCHANGED apiCalls

\* ensureAllowance throws after the typed data went to the signer
EnsureAllowanceThrowsAfterSigning ==
  /\ mpc = "ensureAllowance"
  /\ mpc' = "failed"
  /\ merror' = "allowance_error"
  /\ signCalls' = Append(signCalls,
       [domain |-> PermitDomain(mech, requirements),
        primaryType |-> Undefined,
        message |-> PermitForSigning(mech, locals.permit)])
  /\ UNCHANGED <<mech, requirements, issued, extensions, accountInfo, locals,
                 allowanceCalls, mresult>>
  /\ UNCHANGED <<apiCalls, allowanceResults>>

\* ensureAllowance throws
EnsureAllowanceThrows ==
  /\ mpc = "ensureAllowance"
  /\ mpc' = "failed"
  /\ merror' = "allowance_error"
  /\ UNCHANGED <<mech, requirements, issued, extensions, accountInfo, locals,
                 allowanceCalls, signCalls, mresult>>
  /\ UNCHANGED <<apiCalls, allowanceResults>>

\* ExactEvmClientMechanism.createPaymentPayload up to
\* await this.signer.signTypedData(domain, TRANSFER_AUTH_EIP712_TYPES, message)
ExactEvmCreate(req, nonce) ==
  /\ mpc = "idle"
  /\ mech' = "exact_evm"
  /\ requirements' = req
  /\ issued' = req
  /\ extensions' = NoExtensions
  /\ mpc' = "signTypedData"
  /\ locals' = [authorization |-> TransferAuthorization(req, nonce)]
  /\ signCalls' = Append(signCalls,
       [domain |-> buildEip712Domain(TokenName(req.network, req.asset), "1",
                     getChainId(req.network), EvmToEvmFormat(req.asset)),
        primaryType |-> Undefined,
        message |-> buildEip712Message(TransferAuthorization(req, nonce))])
  /\ UNCHANGED <<accountInfo, allowanceCalls, mresult, merror>>
  /\ UNCHANGED <<apiCalls, allowanceResults>>

\* signTypedData resolves; the payload is assembled and returned
SignTypedDataReturns ==
  /\ mpc = "signTypedData"
  /\ mpc' = "done"
  /\ mresult' =
       CASE mech = "gasfree_exact" ->
              GasFreePayload(requirements, extensions, Signature,
                GasFreePaymentPermit(accountInfo, requirements, extensions,
                                     TronBuyer, locals.typed),
                locals.gasfreeAddress)
         [] mech \in {"exact_permit_tron", "exact_permit_evm"} ->
              PermitPayload(requirements, Signature, locals.permit)
         [] mech = "exact_evm" ->
              ExactEvmPayload(requirements, Signature, locals.authorization)
  /\ UNCHANGED <<mech, requirements, issued, extensions, accountInfo, locals,
                 allowanceCalls, signCalls, merror>>
  /\ UNCHANGED <<apiCalls, allowanceResults>>

\* signTypedData throws
SignTypedDataThrows ==
  /\ mpc = "signTypedData"
  /\ mpc' = "failed"
  /\ merror' = "SignatureError"
  /\ UNCHANGED <<mech, requirements, issued, extensions, accountInfo, locals,
                 allowanceCalls, signCalls, mresult>>
  /\ UNCHANGED <<apiCalls, allowanceResults>>

GasFreeRequirements ==
  PaymentRequirements("gasfree_exact", TRON_NILE, {USDT_NILE, USDD_NILE},
                      TronPayees, TronFacilitator, {Undefined})

PermitRequirements(m) ==
  IF m = "exact_permit_tron"
  THEN PaymentRequirements("exact_permit", TRON_NILE, {USDT_NILE, USDD_NILE},
                           TronPayees, TronFacilitator,
                           {Undefined, TronFacilitator})
  ELSE PaymentRequirements("exact_permit", BSC_TESTNET,
                           {USDT_BSC_TESTNET, USDC_BSC_TESTNET},
                           EvmPayees, EvmFacilitator,
                           {Undefined, EvmFacilitator})

ExactEvmRequirements ==
  PaymentRequirements("exact", BSC_TESTNET,
                      {USDT_BSC_TESTNET, USDC_BSC_TESTNET},
                      EvmPayees, EvmFacilitator, {Undefined})

MechNext ==
  \/ /\ mpc = "idle"
     /\ \E req \in GasFreeRequirements, ext \in Extensions : GasFreeCreate(req, ext)
  \/ /\ mpc = "getAddressInfo"
     /\ \E info \in GasFreeAddressInfo : GetAddressInfoReturns(info)
  \/ GetAddressInfoThrows
  \/ /\ mpc = "idle"
     /\ \E m \in {"exact_permit_tron", "exact_permit_evm"} :
          \E req \in PermitRequirements(m), ext \in Extensions :
            PermitCreate(m, req, ext)
  \/ \E approved \in BOOLEAN : EnsureAllowanceReturns(approved)
  \/ EnsureAllowanceThrows
  \/ /\ mpc = "idle"
     /\ \E req \in ExactEvmRequirements, nonce \in Nonces : ExactEvmCreate(req, nonce)
  \/ SignTypedDataReturns
  \/ SignTypedDataThrows

-----------------------------------------------------------------------------
(* waitForSuccess *)

WaitInit ==
  /\ wpc = "idle"
  /\ clock = 0
  /\ startTime = 0
  /\ timeout = 0
  /\ pollInterval = 0
  /\ statusData = NoStatus
  /\ wresult = NoStatus
  /\ werror = "none"
  /\ polls = 0
  /\ sleeps = 0
  /\ lastQueryAt = 0
  /\ timedOut = FALSE

\* const startTime = Date.now(); let statusData = undefined
WaitForSuccess(t, p) ==
  /\ wpc = "idle"
  /\ startTime' = clock
  /\ timeout' = t
  /\ pollInterval' = p
  /\ statusData' = NoStatus
  /\ wpc' = "loop"
  /\ UNCHANGED <<clock, wresult, werror, polls, sleeps, lastQueryAt, timedOut>>

\* the loop condition with the budget one tick short
LoopConditionShort == clock - startTime < timeout - 1

\* the loop condition with <= in place of <
LoopConditionInclusive == clock - startTime <= timeout

\* while (Date.now() - startTime < timeout), true: getStatus is called
LoopCondition == clock - startTime < timeout

PollStart ==
  /\ wpc = "loop"
  /\ LoopCondition
  /\ polls' = polls + 1
  /\ lastQueryAt' = clock - startTime
  /\ wpc' = "getStatus"
  /\ UNCHANGED <<clock, startTime, timeout, pollInterval, statusData,
                 wresult, werror, sleeps, timedOut>>

\* the loop body without the immediate return on SUCCEED
PollOutcomeNoReturn(s) ==
  IF StateOf(s) = "FAILED" \/ TxnStateOf(s) = "ON_CHAIN_FAILED" THEN "threw"
  ELSE "sleep"

\* what the loop body does with the status a poll observed
PollOutcome(s) ==
  IF StateOf(s) = "SUCCEED" THEN "returned"
  ELSE IF StateOf(s) = "FAILED" \/ TxnStateOf(s) = "ON_CHAIN_FAILED" THEN "threw"
  ELSE "sleep"

\* statusData = await this.getStatus(traceId), then the body of the loop
GetStatusReturns(s, dt) ==
  /\ wpc = "getStatus"
  /\ clock' = clock + dt
  /\ statusData' = s
  /\ wpc' = PollOutcome(s)
  /\ wresult' = IF PollOutcome(s) = "returned" THEN s ELSE wresult
  /\ werror' = IF PollOutcome(s) = "threw" THEN "failed" ELSE werror
  /\ sleeps' = IF PollOutcome(s) = "sleep" THEN sleeps + 1 ELSE sleeps
  /\ UNCHANGED <<startTime, timeout, pollInterval, polls, lastQueryAt, timedOut>>

\* getStatus throws (HTTP status not ok, or code other than 200)
GetStatusThrows(dt) ==
  /\ wpc = "getStatus"
  /\ clock' = clock + dt
  /\ wpc' = "threw"
  /\ werror' = "status_api"
  /\ UNCHANGED <<startTime, timeout, pollInterval, statusData, wresult,
                 polls, sleeps, lastQueryAt, timedOut>>

\* a timer of d ticks fires no earlier than d ticks later, and never in the
\* same tick
TimerDelay(d) == IF d < 1 THEN 1 ELSE d

\* await new Promise((resolve) => setTimeout(resolve, pollInterval))
SleepDone(j) ==
  /\ wpc = "sleep"
  /\ clock' = clock + TimerDelay(pollInterval) + j
  /\ wpc' = "loop"
  /\ UNCHANGED <<startTime, timeout, pollInterval, statusData, wresult,
                 werror, polls, sleeps, lastQueryAt, timedOut>>

\* the test after the loop without the grace rule
GraceSuccessNever(s) == FALSE

\* the test after the loop, looking at state only
GraceSuccessAnyTxnState(s) ==
  /\ s # NoStatus
  /\ StateOf(s) = "CONFIRMING"

\* the test after the loop
GraceSuccess(s) ==
  /\ s # NoStatus
  /\ StateOf(s) = "CONFIRMING"
  /\ TxnStateOf(s) = "ON_CHAIN"

\* the loop condition is false: 2. Timeout reached
TimeoutReached ==
  /\ wpc = "loop"
  /\ ~LoopCondition
  /\ timedOut' = TRUE
  /\ IF GraceSuccess(statusData)
     THEN /\ wpc' = "returned"
          /\ wresult' = statusData
          /\ UNCHANGED werror
     ELSE /\ wpc' = "threw"
          /\ werror' = "timeout"
          /\ UNCHANGED wresult
  /\ UNCHANGED <<clock, startTime, timeout, pollInterval, statusData,
                 polls, sleeps, lastQueryAt>>

WaitNext ==
  \/ \E t \in 0..MaxTimeout, p \in 0..MaxPollInterval : WaitForSuccess(t, p)
  \/ PollStart
  \/ \E dt \in 0..MaxLatency :
       \E s \in GasFreeSubmitResponseData(polls) : GetStatusReturns(s, dt)
  \/ \E dt \in 0..MaxLatency : GetStatusThrows(dt)
  \/ \E j \in 0..MaxJitter : SleepDone(j)
  \/ TimeoutReached

-----------------------------------------------------------------------------
(* X402Client: the mechanism registry, selectPaymentRequirements and the     *)
(* dispatch of createPaymentPayload; the sufficient-balance policies.        *)
(* The registry is populated at wiring time, before the client is used; a    *)
(* behaviour wires a client and follows one call on it.                      *)

clientVars == <<mechanisms, policies, registrations, lastCall>>

endsWith(s, suffix) ==
  Len(s) >= Len(suffix) /\ sliceLast(s, Len(suffix)) = suffix

\* private calculatePriority(pattern)
calculatePriority(pattern) == IF endsWith(pattern, ":*") THEN 1 ELSE 10

\* private matchPattern(pattern, network)
matchPattern(pattern, network) ==
  IF pattern = network THEN TRUE
  ELSE IF endsWith(pattern, ":*")
       THEN startsWith(network, sliceDropLast(pattern, 1))
       ELSE FALSE

\* the mechanism instances a client registers, by class and scheme()
ClientMechanisms ==
  {[class |-> "ExactPermitTronClientMechanism", scheme |-> "exact_permit"],
   [class |-> "GasFreeTronClientMechanism", scheme |-> "gasfree_exact"]}

\* findMechanism's null
NoMechanism == [class |-> Undefined, scheme |-> Undefined]

NetworkPatterns == {TRON_NILE, "tron:*"}

\* the requirements a 402 challenge offers
OfferedRequirements ==
  {[scheme |-> "exact_permit", network |-> TRON_NILE, amount |-> "1000000",
    asset |-> USDT_NILE, payTo |-> "TKtWbdzEq5ss9vTS9kwRhBp5mXmBfBns3E",
    extra |-> [fee |-> [feeAmount |-> "100000", feeTo |-> TronFacilitator,
                        caller |-> Undefined]]],
   [scheme |-> "gasfree_exact", network |-> TRON_NILE, amount |-> "4500000",
    asset |-> USDD_NILE, payTo |-> "TKtWbdzEq5ss9vTS9kwRhBp5mXmBfBns3E",
    extra |-> [fee |-> NoFee]],
   [scheme |-> "exact_permit", network |-> BSC_TESTNET, amount |-> "1000000",
    asset |-> USDT_BSC_TESTNET,
    payTo |-> "0x1825bB32db3443dEc2cc7508b2D818fc13EaD878",
    extra |-> [fee |-> NoFee]]}

OfferedAssets == {r.asset : r \in OfferedRequirements}

OfferedNetworks == {r.network : r \in OfferedRequirements}

\* matchPattern over the patterns and networks of the model, evaluated once
MatchingNetworks ==
  [p \in NetworkPatterns |-> {n \in OfferedNetworks : matchPattern(p, n)}]

\* the place of entry e in a list sorted by descending priority, after the
\* entries that do not compare below it
RECURSIVE InsertByPriority(_, _)
InsertByPriority(sorted, e) ==
  IF sorted = <<>> THEN <<e>>
  ELSE IF sorted[1].priority >= e.priority
       THEN <<sorted[1]>> \o InsertByPriority(Tail(sorted), e)
       ELSE <<e>> \o sorted

\* this.mechanisms.sort((a, b) => b.priority - a.priority), a stable sort
sortUnsorted(entries) == entries
RECURSIVE sort(_)
sort(entries) ==
  IF entries = <<>> THEN <<>>
  ELSE InsertByPriority(sort(SubSeq(entries, 1, Len(entries) - 1)),
                        entries[Len(entries)])

\* private findMechanism(network): the first entry whose pattern matches
RECURSIVE findMechanism(_, _)
findMechanism(entries, network) ==
  IF entries = <<>> THEN NoMechanism
  ELSE IF network \in MatchingNetworks[entries[1].pattern]
       THEN entries[1].mechanism
       ELSE findMechanism(Tail(entries), network)

\* getDecimals(req): findByAddress(req.network, req.asset)?.decimals ?? 6
getDecimals(req) ==
  CASE req.network = TRON_NILE /\ req.asset = USDT_NILE -> 6
    [] req.network = TRON_NILE /\ req.asset = USDD_NILE -> 18
    [] req.network = BSC_TESTNET /\ req.asset = USDT_BSC_TESTNET -> 18
    [] req.network = BSC_TESTNET /\ req.asset = USDC_BSC_TESTNET -> 18
    [] OTHER -> 6

RECURSIVE Zeros(_)
Zeros(n) == IF n = 0 THEN "" ELSE "0" \o Zeros(n - 1)

RECURSIVE StripLeadingZeros(_)
StripLeadingZeros(s) ==
  IF Len(s) > 1 /\ CharAt(s, 1) = "0" THEN StripLeadingZeros(sliceFrom(s, 1))
  ELSE s

\* a < b for decimal strings without leading zeros
RECURSIVE DecimalLess(_, _)
DecimalLess(a, b) ==
  IF Len(a) # Len(b) THEN Len(a) < Len(b)
  ELSE IF Len(a) = 0 THEN FALSE
  ELSE IF CharAt(a, 1) # CharAt(b, 1)
       THEN IndexIn(CharAt(a, 1), DecimalDigits) < IndexIn(CharAt(b, 1), DecimalDigits)
       ELSE DecimalLess(sliceFrom(a, 1), sliceFrom(b, 1))

\* ---- IEEE 754 double arithmetic on positive values ----
\* An integer is the string of its decimal digits; a double is [m, e] with
\* value m * 2^e and 2^52 <= m < 2^53, or m = "0" for 0.

DigitChar(n) == CharAt(DecimalDigits, n + 1)

\* the digit of a decimal character
DigitOf(c) ==
  CASE c = "0" -> 0 [] c = "1" -> 1 [] c = "2" -> 2 [] c = "3" -> 3
    [] c = "4" -> 4 [] c = "5" -> 5 [] c = "6" -> 6 [] c = "7" -> 7
    [] c = "8" -> 8 [] c = "9" -> 9

\* s * m + carry for a small m
RECURSIVE Times(_, _, _)
Times(s, m, carry) ==
  IF Len(s) = 0 THEN (IF carry = 0 THEN "" ELSE toString(carry))
  ELSE CHOOSE r \in
         { Times(sliceDropLast(s, 1), m, v \div 10) \o DigitChar(v % 10) :
             v \in {m * DigitOf(sliceLast(s, 1)) + carry} } : TRUE

\* the digits of (rem * 10^Len(s) + s) div d for a small d
RECURSIVE QuotientBy(_, _, _)
QuotientBy(s, d, rem) ==
  IF Len(s) = 0 THEN ""
  ELSE CHOOSE r \in
         { DigitChar(v \div d) \o QuotientBy(sliceFrom(s, 1), d, v % d) :
             v \in {rem * 10 + DigitOf(CharAt(s, 1))} } : TRUE

\* (rem * 10^Len(s) + s) mod d for a small d
RECURSIVE RemainderBy(_, _, _)
RemainderBy(s, d, rem) ==
  IF Len(s) = 0 THEN rem
  ELSE RemainderBy(sliceFrom(s, 1), d, (rem * 10 + DigitOf(CharAt(s, 1))) % d)

\* s div 2
Half(s) == StripLeadingZeros(QuotientBy(s, 2, 0))

IsOdd(s) == DigitOf(sliceLast(s, 1)) % 2 = 1

\* s + 1
RECURSIVE PlusOne(_)
PlusOne(s) ==
  IF Len(s) = 0 THEN "1"
  ELSE IF sliceLast(s, 1) = "9" THEN PlusOne(sliceDropLast(s, 1)) \o "0"
  ELSE sliceDropLast(s, 1) \o DigitChar(DigitOf(sliceLast(s, 1)) + 1)

\* s * 2^k
RECURSIVE ShiftLeft(_, _)
ShiftLeft(s, k) ==
  IF k = 0 THEN s
  ELSE IF k >= 10
       THEN CHOOSE r \in {ShiftLeft(t, k - 10) : t \in {Times(s, 1024, 0)}} : TRUE
       ELSE CHOOSE r \in {ShiftLeft(t, k - 1) : t \in {Times(s, 2, 0)}} : TRUE

TwoTo42 == "4398046511104"
TwoTo52 == "4503599627370496"
TwoTo53 == "9007199254740992"
TwoTo54 == "18014398509481984"
TwoTo64 == "18446744073709551616"

\* the double nearest to n * 2^e (+ a fraction below 2^e when sticky), ties
\* to even, for an integer n > 0 that has at least 54 bits when sticky
RECURSIVE RoundToDouble(_, _, _)
RoundToDouble(n, e, sticky) ==
  IF DecimalLess(n, TwoTo42)
  THEN CHOOSE r \in {RoundToDouble(t, e - 10, sticky) : t \in {Times(n, 1024, 0)}} :
         TRUE
  ELSE IF DecimalLess(n, TwoTo52)
  THEN CHOOSE r \in {RoundToDouble(t, e - 1, sticky) : t \in {Times(n, 2, 0)}} :
         TRUE
  ELSE IF DecimalLess(n, TwoTo53) THEN [m |-> n, e |-> e]
  ELSE IF DecimalLess(n, TwoTo54)
       THEN LET m == Half(n)
                r == IF IsOdd(n) /\ (sticky \/ IsOdd(m)) THEN PlusOne(m) ELSE m
            IN IF r = TwoTo53 THEN [m |-> TwoTo52, e |-> e + 2]
               ELSE [m |-> r, e |-> e + 1]
  ELSE IF DecimalLess(n, TwoTo64)
  THEN CHOOSE r \in {RoundToDouble(h, e + 1, sticky \/ IsOdd(n)) :
                       h \in {Half(n)}} : TRUE
  ELSE CHOOSE r \in
         {RoundToDouble(h, e + 10, sticky \/ RemainderBy(n, 1024, 0) # 0) :
            h \in {StripLeadingZeros(QuotientBy(n, 1024, 0))}} : TRUE

\* Number(BigInt(s)) for a decimal string s
Number(s) ==
  IF StripLeadingZeros(s) = "0" THEN [m |-> "0", e |-> 0]
  ELSE RoundToDouble(StripLeadingZeros(s), 0, FALSE)

\* x / 10 ** d for a double x and 0 <= d <= 22 (10 ** d is exact): the
\* quotient of m * 2^(4d+2) by 10^d has at least 54 bits
DividedByPowerOfTen(x, d) ==
  IF x.m = "0" THEN x
  ELSE LET p == ShiftLeft(x.m, 4 * d + 2)
       IN RoundToDouble(sliceDropLast(p, d), x.e - (4 * d + 2),
                        sliceLast(p, d) # Zeros(d))

\* x < y for doubles x, y >= 0
DoubleLess(x, y) ==
  IF y.m = "0" THEN FALSE
  ELSE IF x.m = "0" THEN TRUE
  ELSE IF x.e # y.e THEN x.e < y.e
  ELSE DecimalLess(x.m, y.m)

\* normalizedCost(req): Number(BigInt(req.amount)) / 10 ** decimals
normalizedCost(req) == DividedByPowerOfTen(Number(req.amount), getDecimals(req))

\* cost < bestCost
CostLess(a, b) == DoubleLess(normalizedCost(a), normalizedCost(b))

\* the payment options a select call is tried on: amounts of equal value at
\* 6 and at 18 decimals, with and without a fee
SelectCandidates ==
  {[scheme |-> "exact_permit", network |-> TRON_NILE, amount |-> "1000000",
    asset |-> USDT_NILE, payTo |-> "TKtWbdzEq5ss9vTS9kwRhBp5mXmBfBns3E",
    extra |-> [fee |-> [feeAmount |-> "2000000", feeTo |-> TronFacilitator,
                        caller |-> Undefined]]],
   [scheme |-> "exact_permit", network |-> TRON_NILE, amount |-> "1500000",
    asset |-> USDT_NILE, payTo |-> "TKtWbdzEq5ss9vTS9kwRhBp5mXmBfBns3E",
    extra |-> [fee |-> NoFee]],
   [scheme |-> "exact_permit", network |-> TRON_NILE, amount |-> "1000000",
    asset |-> USDT_NILE, payTo |-> "TKtWbdzEq5ss9vTS9kwRhBp5mXmBfBns3E",
    extra |-> [fee |-> NoFee]],
   [scheme |-> "exact_permit", network |-> TRON_NILE,
    amount |-> "1000000000000000000",
    asset |-> USDD_NILE, payTo |-> "TKtWbdzEq5ss9vTS9kwRhBp5mXmBfBns3E",
    extra |-> [fee |-> NoFee]],
   [scheme |-> "exact_permit", network |-> TRON_NILE, amount |-> "36893489",
    asset |-> USDT_NILE, payTo |-> "TKtWbdzEq5ss9vTS9kwRhBp5mXmBfBns3E",
    extra |-> [fee |-> NoFee]],
   [scheme |-> "exact_permit", network |-> TRON_NILE,
    amount |-> "36893489000000000000",
    asset |-> USDD_NILE, payTo |-> "TKtWbdzEq5ss9vTS9kwRhBp5mXmBfBns3E",
    extra |-> [fee |-> NoFee]],
   [scheme |-> "exact_permit", network |-> BSC_TESTNET,
    amount |-> "1000000000000000001",
    asset |-> USDT_BSC_TESTNET,
    payTo |-> "0x1825bB32db3443dEc2cc7508b2D818fc13EaD878",
    extra |-> [fee |-> NoFee]]}

\* normalizedCost over the requirements of the model, evaluated once
NormalizedCosts ==
  [r \in OfferedRequirements \cup SelectCandidates |-> normalizedCost(r)]

\* cost < bestCost over the requirements of the model, evaluated once
CheaperThan ==
  [b \in OfferedRequirements \cup SelectCandidates |->
     {a \in OfferedRequirements \cup SelectCandidates :
        DoubleLess(NormalizedCosts[a], NormalizedCosts[b])}]

\* DefaultTokenSelectionStrategy.select on a non-empty list: the loop keeps
\* the first candidate of least cost
RECURSIVE SelectFrom(_, _, _)
SelectFrom(accepts, i, best) ==
  IF i > Len(accepts) THEN best
  ELSE SelectFrom(accepts, i + 1,
                  IF accepts[i] \in CheaperThan[best] THEN accepts[i] ELSE best)

select(accepts) == SelectFrom(accepts, 2, accepts[1])

\* a string option that is set: if (filters?.scheme), if (...feeAmount)
Given(x) == x \notin {Undefined, ""}

\* let needed = BigInt(req.amount); needed += BigInt(req.extra.fee.feeAmount)
Needed(req) ==
  BigInt(req.amount)
    + (IF Given(req.extra.fee.feeAmount) THEN BigInt(req.extra.fee.feeAmount)
       ELSE 0)

\* what probing the balance of an asset gives: no signer for the requirement,
\* a checkBalance that throws, or the balance
NoSigner == "<no signer>"
Throws == "<throws>"
BalanceOutcomes == {NoSigner, Throws, "0", "9000000"}

\* what the signer's query gives: the outcomes above, or a query that fails
\* (the node cannot be reached, the call reverts, the result is empty)
QueryFails == "<query fails>"
ProbeOutcomes == BalanceOutcomes \cup {QueryFails}

\* signer.checkBalance(token, network): TronClientSigner and EvmClientSigner
\* catch the failure of the query, log it and return 0
checkBalance(probe) == IF probe = QueryFails THEN "0" ELSE probe

Unprobed(balances, req) == balances[req.asset] \in {NoSigner, Throws}

\* balance >= needed over the balances and requirements of the model,
\* evaluated once
CoveredBy ==
  [b \in BalanceOutcomes \ {NoSigner, Throws} |->
     {r \in OfferedRequirements : BigInt(b) >= Needed(r)}]

Covers(balances, req) ==
  ~Unprobed(balances, req) /\ req \in CoveredBy[balances[req.asset]]

\* SufficientBalancePolicy.apply (policies.ts)
SufficientBalancePolicyFailOpen(reqs, balances) ==
  LET Keep(req) == Unprobed(balances, req) \/ Covers(balances, req)
      affordable == SelectSeq(reqs, Keep)
  IN IF affordable = <<>> THEN reqs ELSE affordable

SufficientBalancePolicy(reqs, balances) ==
  LET Keep(req) == Unprobed(balances, req) \/ Covers(balances, req)
  IN SelectSeq(reqs, Keep)

\* sufficientBalancePolicy(signer) applied to a list (tokenSelection.ts);
\* every balance query resolves
sufficientBalancePolicyFailClosed(reqs, balances) ==
  LET Keep(req) == Covers(balances, req) IN SelectSeq(reqs, Keep)

sufficientBalancePolicy(reqs, balances) ==
  LET Keep(req) == Covers(balances, req)
      affordable == SelectSeq(reqs, Keep)
  IN IF Len(affordable) > 0 THEN affordable ELSE reqs

\* for (const policy of this.policies) candidates = await policy.apply(candidates)
RECURSIVE ApplyPolicies(_, _, _)
ApplyPolicies(ps, candidates, balances) ==
  IF ps = <<>> THEN candidates
  ELSE ApplyPolicies(Tail(ps), SufficientBalancePolicy(candidates, balances),
                     balances)

\* accepts: PaymentRequirements[]
AcceptsLists == UNION {[1..n -> OfferedRequirements] : n \in 0..MaxAccepts}

\* PaymentRequirementsFilter {scheme?, network?, maxAmount?}
Filters ==
  [scheme : {Undefined, "exact_permit"}, network : {Undefined, TRON_NILE},
   maxAmount : {Undefined, "1000000"}]

NoFilters ==
  [scheme |-> Undefined, network |-> Undefined, maxAmount |-> Undefined]

\* what the balance probes give for the assets of a list; the assets that are
\* not in the list are not probed
BalancesFor(accepts, outcomes) ==
  {b \in [OfferedAssets -> outcomes] :
     \A asset \in OfferedAssets :
       (\A i \in 1..Len(accepts) : accepts[i].asset # asset)
         => b[asset] = "0"}

NoBalances == [asset \in OfferedAssets |-> "0"]

\* what checkBalance gives for each probe
CheckedBalances(probes) ==
  [asset \in OfferedAssets |-> checkBalance(probes[asset])]

NoCall ==
  [op |-> "none", accepts |-> <<>>, filters |-> NoFilters,
   probes |-> NoBalances, balances |-> NoBalances, requirements |-> NoRequirements,
   candidates |-> <<>>, result |-> NoRequirements,
   mechanism |-> NoMechanism, error |-> "none"]

ClientInit ==
  /\ mechanisms = <<>>
  /\ policies = <<>>
  /\ registrations = <<>>
  /\ lastCall = NoCall

\* X402Client.register(networkPattern, mechanism)
Register(networkPattern, mechanism) ==
  /\ lastCall = NoCall
  /\ Len(mechanisms) < MaxRegistered
  /\ mechanisms' =
       sort(Append(mechanisms,
                   [pattern |-> networkPattern, mechanism |-> mechanism,
                    priority |-> calculatePriority(networkPattern)]))
  /\ registrations' =
       Append(registrations,
              [pattern |-> networkPattern, mechanism |-> mechanism])
  /\ UNCHANGED <<policies, lastCall>>

\* X402Client.registerPolicy(new SufficientBalancePolicy(client))
RegisterPolicy ==
  /\ lastCall = NoCall
  /\ Len(policies) < MaxPolicies
  /\ policies' = Append(policies, "SufficientBalancePolicy")
  /\ UNCHANGED <<mechanisms, registrations, lastCall>>

\* BigInt(r.amount) <= BigInt(filters.maxAmount) over the filters and
\* requirements of the model, evaluated once
WithinMaxAmount ==
  [max \in {f.maxAmount : f \in Filters} \ {Undefined} |->
     {r \in OfferedRequirements : BigInt(r.amount) <= BigInt(max)}]

\* the candidates of selectPaymentRequirements after the three filters
FilteredByOptions(accepts, filters) ==
  LET SchemeOk(r) == Given(filters.scheme) => r.scheme = filters.scheme
      NetworkOk(r) == Given(filters.network) => r.network = filters.network
      AmountOk(r) ==
        Given(filters.maxAmount) => r \in WithinMaxAmount[filters.maxAmount]
  IN SelectSeq(SelectSeq(SelectSeq(accepts, SchemeOk), NetworkOk), AmountOk)

\* candidates.filter(r => this.findMechanism(r.network) !== null)
FilteredByMechanismNot(candidates) == candidates
FilteredByMechanism(candidates) ==
  LET Registered(r) == findMechanism(mechanisms, r.network) # NoMechanism
  IN SelectSeq(candidates, Registered)

\* X402Client.selectPaymentRequirements(accepts, filters)
SelectPaymentRequirements(accepts, filters, probes) ==
  /\ lastCall = NoCall
  /\ \E balances \in {CheckedBalances(probes)} : \E candidates \in
        {ApplyPolicies(policies,
                       FilteredByMechanism(FilteredByOptions(accepts, filters)),
                       balances)} :
     /\ lastCall' =
          [NoCall EXCEPT
             !.op = "selectPaymentRequirements",
             !.accepts = accepts, !.filters = filters, !.probes = probes,
             !.balances = balances,
             !.candidates = candidates,
             !.result = IF candidates = <<>> THEN NoRequirements
                        ELSE select(candidates),
             !.error = IF candidates = <<>> THEN "UnsupportedNetworkError"
                       ELSE "none"]
     /\ UNCHANGED <<mechanisms, policies, registrations>>

\* X402Client.createPaymentPayload(requirements, resource, extensions) up to
\* the call of the mechanism it dispatches to
CreatePaymentPayload(req) ==
  /\ lastCall = NoCall
  /\ \E mechanism \in {findMechanism(mechanisms, req.network)} :
     /\ lastCall' =
          [NoCall EXCEPT
             !.op = "createPaymentPayload",
             !.requirements = req,
             !.mechanism = mechanism,
             !.error = IF mechanism = NoMechanism
                       THEN "UnsupportedNetworkError" ELSE "none"]
     /\ UNCHANGED <<mechanisms, policies, registrations>>

\* new SufficientBalancePolicy(client).apply(requirements), on a policy
\* object of its own
ApplySufficientBalancePolicyClass(reqs, probes) ==
  /\ lastCall = NoCall
  /\ mechanisms = <<>> /\ policies = <<>>
  /\ \E balances \in {CheckedBalances(probes)} :
     lastCall' =
       [NoCall EXCEPT !.op = "SufficientBalancePolicy.apply",
                      !.accepts = reqs, !.probes = probes,
                      !.balances = balances,
                      !.candidates = SufficientBalancePolicy(reqs, balances)]
  /\ UNCHANGED <<mechanisms, policies, registrations>>

\* sufficientBalancePolicy(signer)(requirements): a checkBalance that throws
\* rejects the call
ApplySufficientBalancePolicy(reqs, probes) ==
  /\ lastCall = NoCall
  /\ mechanisms = <<>> /\ policies = <<>>
  /\ \E balances \in {CheckedBalances(probes)} :
     lastCall' =
       IF \E i \in 1..Len(reqs) : balances[reqs[i].asset] = Throws
       THEN [NoCall EXCEPT !.op = "sufficientBalancePolicy",
                           !.accepts = reqs, !.probes = probes,
                           !.balances = balances,
                           !.error = "checkBalance"]
       ELSE [NoCall EXCEPT !.op = "sufficientBalancePolicy",
                           !.accepts = reqs, !.probes = probes,
                           !.balances = balances,
                           !.candidates = sufficientBalancePolicy(reqs, balances)]
  /\ UNCHANGED <<mechanisms, policies, registrations>>

\* one call is followed: nothing is enabled once it was made
ClientIdle == lastCall = NoCall

ClientNext ==
  \/ \E p \in NetworkPatterns, m \in ClientMechanisms : Register(p, m)
  \/ RegisterPolicy
  \/ /\ ClientIdle
     /\ \E accepts \in AcceptsLists, filters \in Filters :
          \E probes \in BalancesFor(accepts, ProbeOutcomes \ {NoSigner}) :
            SelectPaymentRequirements(accepts, filters, probes)
  \/ \E req \in OfferedRequirements : CreatePaymentPayload(req)
  \/ /\ ClientIdle
     /\ \E reqs \in AcceptsLists :
          \E probes \in BalancesFor(reqs, ProbeOutcomes) :
            ApplySufficientBalancePolicyClass(reqs, probes)
  \/ /\ ClientIdle
     /\ \E reqs \in AcceptsLists :
          \E probes \in BalancesFor(reqs, ProbeOutcomes \ {NoSigner}) :
            ApplySufficientBalancePolicy(reqs, probes)

-----------------------------------------------------------------------------
(* DefaultTokenSelectionStrategy.select called on a list of options, and      *)
(* called once more on the same list                                          *)

selectVars == <<selectCalls>>

SelectInit == selectCalls = <<>>

\* select(accepts) with its outcome: the option returned or the Error thrown
SelectCall(accepts) ==
  [accepts |-> accepts,
   result |-> IF Len(accepts) = 0 THEN NoRequirements ELSE select(accepts),
   error |-> IF Len(accepts) = 0 THEN "No payment options available"
             ELSE "none"]

\* strategy.select(accepts)
Select(accepts) ==
  /\ selectCalls = <<>>
  /\ selectCalls' = <<SelectCall(accepts)>>

\* strategy.select(accepts) again, on the list of the first call
SelectAgain ==
  /\ Len(selectCalls) = 1
  /\ selectCalls' = Append(selectCalls, SelectCall(selectCalls[1].accepts))

SelectNext ==
  \/ \E accepts \in UNION {[1..n -> SelectCandidates] : n \in 0..MaxAccepts} :
       Select(accepts)
  \/ SelectAgain

-----------------------------------------------------------------------------
(* FacilitatorMechanism + X402Facilitator: the state machine of a settlement *)
(* attempt, RECEIVED -> VERIFYING -> {VERIFIED | REJECTED} -> SETTLING ->    *)
(* {SETTLED | FAILED}, and the permit contract's consumed nonces.            *)

facVars == <<now, attempts, nonceUsed>>

Attempts == 1..MaxAttempts

\* the server's own copy of the requirements of the resource
ServerRequirements ==
  [scheme |-> "exact_permit", network |-> TRON_NILE, amount |-> "1000000",
   asset |-> USDT_NILE, payTo |-> "TKtWbdzEq5ss9vTS9kwRhBp5mXmBfBns3E",
   extra |-> [fee |-> [feeAmount |-> "100000", feeTo |-> TronFacilitator,
                       caller |-> Undefined]]]

\* what a client may present as payload.accepted: the requirements, or the
\* requirements with one field changed
PresentedAccepted(req) ==
  {req,
   [req EXCEPT !.amount = toString(BigInt(@) + 1)],
   [req EXCEPT !.payTo = "TLCvf7MktLG7XkbJRyUwnvCeDnaEXYkcbC"]}

PermitNonces == {"1", "2"}

\* PermitMeta {nonce, validAfter, validBefore} and the buyer of a PaymentPermit
PaymentPermits ==
  [buyer : {TronBuyer},
   meta : [nonce : PermitNonces, validAfter : {1}, validBefore : {2}]]

\* a signature, as the account that made it and the permit it was made over
SignatureBy(signer, permit) == [signer |-> signer, over |-> permit]

PaymentPayloads ==
  {[accepted |-> acc, paymentPermit |-> permit,
    signature |-> SignatureBy(signer, permit)] :
     acc \in PresentedAccepted(ServerRequirements),
     permit \in PaymentPermits,
     signer \in {TronBuyer, TronFacilitator}}

NoPaymentPayload ==
  [accepted |-> NoRequirements,
   paymentPermit |-> [buyer |-> Undefined,
                      meta |-> [nonce |-> Undefined, validAfter |-> 0,
                                validBefore |-> 0]],
   signature |-> [signer |-> Undefined, over |-> Undefined]]

\* VerifyResponse {isValid, invalidReason?}; at and nonceConsumed are history:
\* the clock and the state of the buyer's nonce when verify ran
NoVerifyResponse ==
  [isValid |-> FALSE, invalidReason |-> Undefined, at |-> 0,
   nonceConsumed |-> FALSE]
NoSettleResponse == [success |-> FALSE, errorReason |-> Undefined]

NoAttempt ==
  [state |-> "NONE", payload |-> NoPaymentPayload,
   requirements |-> NoRequirements, verifyResponse |-> NoVerifyResponse,
   settleResponse |-> NoSettleResponse]

\* (a) every field of payload.accepted equals the server's requirements
AcceptedMatchesAmountOnly(payload, req) == payload.accepted.amount = req.amount
AcceptedMatches(payload, req) == payload.accepted = req

\* (b) the signature is the buyer's, over the permit presented
SignatureValid(payload) ==
  payload.signature = SignatureBy(payload.paymentPermit.buyer,
                                  payload.paymentPermit)

\* (c) a permit is usable only while validAfter <= now < validBefore
InsideWindowNoExpiry(permit, t) == permit.meta.validAfter <= t
InsideWindow(permit, t) ==
  permit.meta.validAfter <= t /\ t < permit.meta.validBefore

\* (d) a nonce already consumed for this buyer is rejected
NonceFreshAlways(permit, used) == TRUE
NonceFresh(permit, used) == <<permit.buyer, permit.meta.nonce>> \notin used

InvalidReason(payload, req, t, used) ==
  IF ~AcceptedMatches(payload, req) THEN "requirements_mismatch"
  ELSE IF ~SignatureValid(payload) THEN "invalid_signature"
  ELSE IF ~InsideWindow(payload.paymentPermit, t) THEN "outside_validity_window"
  ELSE IF ~NonceFresh(payload.paymentPermit, used) THEN "nonce_used"
  ELSE Undefined

FacInit ==
  /\ now = 0
  /\ attempts = [a \in Attempts |-> NoAttempt]
  /\ nonceUsed = {}

\* POST /verify or /settle arrives: the attempt is RECEIVED
Receive(a, payload) ==
  /\ attempts[a].state = "NONE"
  /\ attempts' = [attempts EXCEPT ![a].state = "RECEIVED",
                                  ![a].payload = payload,
                                  ![a].requirements = ServerRequirements]
  /\ UNCHANGED <<now, nonceUsed>>

\* X402Facilitator routes the attempt to the mechanism of its network
StartVerifying(a) ==
  /\ attempts[a].state = "RECEIVED"
  /\ attempts' = [attempts EXCEPT ![a].state = "VERIFYING"]
  /\ UNCHANGED <<now, nonceUsed>>

\* FacilitatorMechanism.verify: checks (a) to (d), VerifyResponse
Verify(a) ==
  /\ attempts[a].state = "VERIFYING"
  /\ LET reason == InvalidReason(attempts[a].payload, attempts[a].requirements,
                                 now, nonceUsed)
     IN attempts' =
          [attempts EXCEPT
             ![a].state = IF reason = Undefined THEN "VERIFIED" ELSE "REJECTED",
             ![a].verifyResponse =
                [isValid |-> reason = Undefined, invalidReason |-> reason,
                 at |-> now,
                 nonceConsumed |->
                   ~NonceFresh(attempts[a].payload.paymentPermit, nonceUsed)]]
  /\ UNCHANGED <<now, nonceUsed>>

\* FacilitatorMechanism.settle of a verified attempt: the contract call is sent
StartSettlingAnyVerdict(a) ==
  /\ attempts[a].state \in {"VERIFIED", "REJECTED"}
  /\ attempts' = [attempts EXCEPT ![a].state = "SETTLING"]
  /\ UNCHANGED <<now, nonceUsed>>

StartSettling(a) ==
  /\ attempts[a].state = "VERIFIED"
  /\ attempts' = [attempts EXCEPT ![a].state = "SETTLING"]
  /\ UNCHANGED <<now, nonceUsed>>

\* the permit contract executes the call: it consumes the buyer's nonce, or
\* reverts when the nonce is already consumed
SettleWithoutConsuming(a) ==
  /\ attempts[a].state = "SETTLING"
  /\ IF NonceFresh(attempts[a].payload.paymentPermit, nonceUsed)
     THEN attempts' = [attempts EXCEPT
            ![a].state = "SETTLED",
            ![a].settleResponse = [success |-> TRUE, errorReason |-> Undefined]]
     ELSE attempts' = [attempts EXCEPT
            ![a].state = "FAILED",
            ![a].settleResponse = [success |-> FALSE,
                                   errorReason |-> "nonce_used"]]
  /\ UNCHANGED <<now, nonceUsed>>

Settle(a) ==
  /\ attempts[a].state = "SETTLING"
  /\ LET permit == attempts[a].payload.paymentPermit
         key == <<permit.buyer, permit.meta.nonce>>
     IN IF NonceFresh(permit, nonceUsed)
        THEN /\ nonceUsed' = nonceUsed \cup {key}
             /\ attempts' = [attempts EXCEPT
                  ![a].state = "SETTLED",
                  ![a].settleResponse = [success |-> TRUE,
                                         errorReason |-> Undefined]]
        ELSE /\ UNCHANGED nonceUsed
             /\ attempts' = [attempts EXCEPT
                  ![a].state = "FAILED",
                  ![a].settleResponse = [success |-> FALSE,
                                         errorReason |-> "nonce_used"]]
  /\ UNCHANGED now

\* wall-clock time passes
Tick ==
  /\ now < MaxNow
  /\ now' = now + 1
  /\ UNCHANGED <<attempts, nonceUsed>>

FacNext ==
  \/ \E a \in Attempts, payload \in PaymentPayloads : Receive(a, payload)
  \/ \E a \in Attempts : StartVerifying(a)
  \/ \E a \in Attempts : Verify(a)
  \/ \E a \in Attempts : StartSettling(a)
  \/ \E a \in Attempts : Settle(a)
  \/ Tick

-----------------------------------------------------------------------------
(* ClientSigner.ensureAllowance as a process: one call at a time          *)
(* (TronClientSigner in signers/signer.ts, EvmClientSigner in             *)
(* signers/evmSigner.ts)                                                   *)

allowanceVars ==
  <<apc, signerClass, mode, amount, loopIndex, waited, checks, submitted,
    confirmed, aresult, aerror>>

\* for (let i = 0; i < 10; i++)
ConfirmationChecks == 10

\* setTimeout(resolve, 3000)
ConfirmationWaitMs == 3000

SignerClasses == {"TronClientSigner", "EvmClientSigner"}

Modes == {"auto", "interactive", "skip"}

\* the amounts ensureAllowance is called with and the allowances the token
\* contract reports
AllowanceAmounts == {1000000, 6500000}

CurrentAllowances == {0, 1000000}

AllowanceInit ==
  /\ apc = "idle"
  /\ signerClass = "none"
  /\ mode = "none"
  /\ amount = 0
  /\ loopIndex = 0
  /\ waited = 0
  /\ checks = 0
  /\ submitted = FALSE
  /\ confirmed = FALSE
  /\ aresult = Undefined
  /\ aerror = "none"

\* ensureAllowance(token, amount, network, mode) up to
\* await this.checkAllowance(token, amount, network); the network argument is
\* the requirements' network, so resolvedNetwork is defined
EnsureAllowance(s, a, m) ==
  /\ apc = "idle"
  /\ signerClass' = s
  /\ amount' = a
  /\ mode' = m
  /\ IF m = "skip"
     THEN apc' = "done" /\ aresult' = TRUE
     ELSE apc' = "checkAllowance" /\ UNCHANGED aresult
  /\ UNCHANGED <<loopIndex, waited, checks, submitted, confirmed, aerror>>

\* checkAllowance resolves (it catches its own errors and resolves to 0); the
\* comparison and the mode check follow, up to the first await of the approve
\* transaction
CheckAllowanceReturns(currentAllowance) ==
  /\ apc = "checkAllowance"
  /\ IF currentAllowance >= amount
     THEN apc' = "done" /\ aresult' = TRUE /\ UNCHANGED aerror
     ELSE IF mode = "interactive"
     THEN /\ apc' = "failed"
          /\ aerror' = "InsufficientAllowanceError"
          /\ UNCHANGED aresult
     ELSE /\ apc' = IF signerClass = "TronClientSigner"
                    THEN "triggerSmartContract" ELSE "writeContract"
          /\ UNCHANGED <<aresult, aerror>>
  /\ UNCHANGED <<signerClass, mode, amount, loopIndex, waited, checks,
                 submitted, confirmed>>

\* an await inside the try block throws: the catch rethrows it as (or wraps it
\* in) InsufficientAllowanceError
ApproveFails ==
  /\ apc' = "failed"
  /\ aerror' = "InsufficientAllowanceError"
  /\ UNCHANGED <<signerClass, mode, amount, loopIndex, waited, checks,
                 submitted, confirmed, aresult>>

\* TronClientSigner: transactionBuilder.triggerSmartContract settles
TriggerSmartContractSettles(outcome) ==
  /\ apc = "triggerSmartContract"
  /\ IF outcome = "ok"
     THEN /\ apc' = "sign"
          /\ UNCHANGED <<signerClass, mode, amount, loopIndex, waited, checks,
                         submitted, confirmed, aresult, aerror>>
     ELSE ApproveFails

\* TronClientSigner: trx.sign settles
SignSettles(outcome) ==
  /\ apc = "sign"
  /\ IF outcome = "ok"
     THEN /\ apc' = "sendRawTransaction"
          /\ UNCHANGED <<signerClass, mode, amount, loopIndex, waited, checks,
                         submitted, confirmed, aresult, aerror>>
     ELSE ApproveFails

\* TronClientSigner: trx.sendRawTransaction settles; with broadcast.result the
\* loop is entered (i = 0) up to its first setTimeout
SendRawTransactionSettles(outcome) ==
  /\ apc = "sendRawTransaction"
  /\ IF outcome = "ok"
     THEN /\ apc' = "sleep"
          /\ loopIndex' = 0
          /\ submitted' = TRUE
          /\ UNCHANGED <<signerClass, mode, amount, waited, checks, confirmed,
                         aresult, aerror>>
     ELSE ApproveFails

\* TronClientSigner: the 3000 ms timer fires, up to
\* await this.tronWeb.trx.getTransactionInfo(txid)
TimerFires ==
  /\ apc = "sleep"
  /\ waited' = waited + ConfirmationWaitMs
  /\ apc' = "getTransactionInfo"
  /\ UNCHANGED <<signerClass, mode, amount, loopIndex, checks, submitted,
                 confirmed, aresult, aerror>>

\* getTransactionInfo settles and the loop returns true after its last round
\* without a confirmation, only that it throws instead
GetTransactionInfoSettlesFailing(outcome) ==
  /\ apc = "getTransactionInfo"
  /\ checks' = checks + 1
  /\ IF outcome \in {"SUCCESS", "FAILED"}
     THEN /\ apc' = "done"
          /\ confirmed' = TRUE
          /\ aresult' = (outcome = "SUCCESS")
          /\ UNCHANGED <<loopIndex, aerror>>
     ELSE /\ loopIndex' = loopIndex + 1
          /\ IF loopIndex + 1 < ConfirmationChecks
             THEN apc' = "sleep" /\ UNCHANGED <<aresult, aerror>>
             ELSE /\ apc' = "failed"
                  /\ aerror' = "InsufficientAllowanceError"
                  /\ UNCHANGED aresult
          /\ UNCHANGED confirmed
  /\ UNCHANGED <<signerClass, mode, amount, waited, submitted>>

\* TronClientSigner: getTransactionInfo settles. With a blockNumber the
\* receipt decides the result; without one, or when the query throws, i++ and
\* the loop goes on while i < 10, and after the loop true is returned
GetTransactionInfoSettles(outcome) ==
  /\ apc = "getTransactionInfo"
  /\ checks' = checks + 1
  /\ IF outcome \in {"SUCCESS", "FAILED"}
     THEN /\ apc' = "done"
          /\ confirmed' = TRUE
          /\ aresult' = (outcome = "SUCCESS")
          /\ UNCHANGED loopIndex
     ELSE /\ loopIndex' = loopIndex + 1
          /\ IF loopIndex + 1 < ConfirmationChecks
             THEN apc' = "sleep" /\ UNCHANGED aresult
             ELSE apc' = "done" /\ aresult' = TRUE
          /\ UNCHANGED confirmed
  /\ UNCHANGED <<signerClass, mode, amount, waited, submitted, aerror>>

\* EvmClientSigner: walletClient.writeContract settles
WriteContractSettles(outcome) ==
  /\ apc = "writeContract"
  /\ IF outcome = "ok"
     THEN /\ apc' = "waitForTransactionReceipt"
          /\ submitted' = TRUE
          /\ UNCHANGED <<signerClass, mode, amount, loopIndex, waited, checks,
                         confirmed, aresult, aerror>>
     ELSE ApproveFails

\* EvmClientSigner: client.waitForTransactionReceipt({ hash }) settles: a
\* receipt decides the result, a throw (viem gives up waiting, RPC error)
\* goes to the catch
WaitForTransactionReceiptSettles(outcome) ==
  /\ apc = "waitForTransactionReceipt"
  /\ checks' = checks + 1
  /\ IF outcome \in {"success", "reverted"}
     THEN /\ apc' = "done"
          /\ confirmed' = TRUE
          /\ aresult' = (outcome = "success")
          /\ UNCHANGED aerror
     ELSE /\ apc' = "failed"
          /\ aerror' = "InsufficientAllowanceError"
          /\ UNCHANGED <<confirmed, aresult>>
  /\ UNCHANGED <<signerClass, mode, amount, loopIndex, waited, submitted>>

AllowanceNext ==
  \/ \E s \in SignerClasses, a \in AllowanceAmounts, m \in Modes :
       EnsureAllowance(s, a, m)
  \/ \E currentAllowance \in CurrentAllowances :
       CheckAllowanceReturns(currentAllowance)
  \/ \E outcome \in {"ok", "no_result", "throws"} :
       TriggerSmartContractSettles(outcome)
  \/ \E outcome \in {"ok", "throws"} : SignSettles(outcome)
  \/ \E outcome \in {"ok", "no_result", "throws"} :
       SendRawTransactionSettles(outcome)
  \/ TimerFires
  \/ \E outcome \in {"SUCCESS", "FAILED", "unconfirmed", "throws"} :
       GetTransactionInfoSettles(outcome)
  \/ \E outcome \in {"ok", "throws"} : WriteContractSettles(outcome)
  \/ \E outcome \in {"success", "reverted", "throws"} :
       WaitForTransactionReceiptSettles(outcome)

-----------------------------------------------------------------------------
(* toEvmHex and toBase58 (core/src/address.ts) applied to bounded inputs *)

addressVars == <<addressCalls>>

MaxCut == 3            \* most characters cut off the end of an address

\* the Base58Check addresses of the configuration and of the offers
ValidTronAddresses == DOMAIN ConvertedAddresses

\* addresses that lost their last characters
TruncatedAddresses ==
  {sliceDropLast(a, n) : a \in ValidTronAddresses, n \in 1..MaxCut}

\* addresses whose last character is not in the Base58 alphabet
MisspelledAddresses ==
  {sliceDropLast(a, 1) \o c : a \in ValidTronAddresses, c \in {"0", "l"}}

AddressInputs ==
  ValidTronAddresses \cup TruncatedAddresses \cup MisspelledAddresses
    \cup {"", "T000", "hello", "0xnothex",
          "41eca9bc828a3005b9a3b909f2cc5c2a54794de05f",
          USDT_BSC_TESTNET, EVM_ZERO_ADDRESS}

AddressInit == addressCalls = <<>>

\* toEvmHex(addr)
ToEvmHex(addr) ==
  /\ addressCalls = <<>>
  /\ addressCalls' = <<[fn |-> "toEvmHex", input |-> addr,
                        output |-> toEvmHex(addr),
                        warned |-> toEvmHexWarns(addr),
                        threw |-> FALSE]>>

\* toBase58 applied to what toEvmHex returned
ToBase58 ==
  /\ Len(addressCalls) = 1
  /\ LET hex == addressCalls[1].output
     IN addressCalls' =
          Append(addressCalls,
                 [fn |-> "toBase58", input |-> hex,
                  output |-> IF toBase58Throws(hex) THEN Undefined
                             ELSE toBase58(hex),
                  warned |-> FALSE,
                  threw |-> toBase58Throws(hex)])

AddressNext ==
  \/ \E addr \in AddressInputs : ToEvmHex(addr)
  \/ ToBase58

-----------------------------------------------------------------------------
(* X402FetchClient.request: fetch, parse the 402 challenge, pay, retry *)

fetchVars == <<fpc, requests, responses, payloads, fresult, ferror>>

PAYMENT_SIGNATURE_HEADER == "PAYMENT-SIGNATURE"

HeaderNames == {"Authorization", PAYMENT_SIGNATURE_HEADER}

\* init?.headers of the caller
NoHeaders == [name \in HeaderNames |-> Undefined]
InitHeaders ==
  {NoHeaders, [NoHeaders EXCEPT !["Authorization"] = "Bearer token"]}

\* a response as request looks at it: the status, whether the
\* PAYMENT-REQUIRED header is absent, decodes or does not decode, and what
\* the body is
ChallengeResponses ==
  [status : {402}, header : {"absent", "valid", "garbage"},
   body : {"accepts array", "accepts string", "no accepts", "not json"}]

FetchResponses ==
  [status : {200, 500}, header : {"absent"}, body : {"not json"}]
    \cup ChallengeResponses

\* what handlePayment resolves with
FetchPayloads ==
  [x402Version : {2}, signature : {"0xaa", "0xbb"}]

HandlePaymentErrors == {"UnsupportedNetworkError", "InsufficientGasFreeBalance"}

\* encodePaymentPayload(payload): base64 of the JSON text
encodePaymentPayload(payload) == <<"base64", <<"json", payload>>>>

\* parsePaymentRequired(response): where the PaymentRequired was read from,
\* Undefined for null
parsePaymentRequired(response) ==
  IF response.header = "valid" THEN "header"
  ELSE IF response.body = "accepts array" THEN "body"
  ELSE Undefined

\* a variant that treats the response to the retry like the first response
AfterResponseRetrying(count, response) ==
  IF response.status # 402 THEN "done" ELSE "parse"

\* where request goes after the count-th response: the first response is
\* returned unless its status is 402, the response to the retry is returned
AfterResponse(count, response) ==
  IF count = 1 /\ response.status = 402 THEN "parse" ELSE "done"

FetchInit ==
  /\ fpc = "idle"
  /\ requests = <<>>
  /\ responses = <<>>
  /\ payloads = <<>>
  /\ fresult = Undefined
  /\ ferror = Undefined

\* request(url, init) up to its first await: fetch(url, init)
Request(url, headers) ==
  /\ fpc = "idle"
  /\ requests' = <<[url |-> url, headers |-> headers]>>
  /\ fpc' = "fetch"
  /\ UNCHANGED <<responses, payloads, fresult, ferror>>

\* fetch resolves
FetchResolves(response) ==
  /\ fpc = "fetch"
  /\ responses' = Append(responses, response)
  /\ fpc' = AfterResponse(Len(requests), response)
  /\ fresult' = IF fpc' = "done" THEN response ELSE fresult
  /\ UNCHANGED <<requests, payloads, ferror>>

\* fetch rejects
FetchRejects ==
  /\ fpc = "fetch"
  /\ ferror' = "TypeError"
  /\ fpc' = "failed"
  /\ UNCHANGED <<requests, responses, payloads, fresult>>

\* parsePaymentRequired settles: null returns the 402 response
ParsePaymentRequiredSettles ==
  /\ fpc = "parse"
  /\ LET response == responses[Len(responses)]
     IN IF parsePaymentRequired(response) = Undefined
        THEN fpc' = "done" /\ fresult' = response
        ELSE fpc' = "handlePayment" /\ fresult' = fresult
  /\ UNCHANGED <<requests, responses, payloads, ferror>>

\* handlePayment resolves; retryWithPayment issues the second fetch
HandlePaymentReturns(paymentPayload) ==
  /\ fpc = "handlePayment"
  /\ payloads' = Append(payloads, paymentPayload)
  /\ LET init == requests[1]
     IN requests' =
          Append(requests,
                 [url |-> init.url,
                  headers |-> [init.headers EXCEPT ![PAYMENT_SIGNATURE_HEADER] =
                                 encodePaymentPayload(paymentPayload)]])
  /\ fpc' = "fetch"
  /\ UNCHANGED <<responses, fresult, ferror>>

\* handlePayment rejects
HandlePaymentThrows(error) ==
  /\ fpc = "handlePayment"
  /\ ferror' = error
  /\ fpc' = "failed"
  /\ UNCHANGED <<requests, responses, payloads, fresult>>

FetchNext ==
  \/ \E headers \in InitHeaders :
       Request("https://api.example.com/premium-data", headers)
  \/ \E response \in FetchResponses : FetchResolves(response)
  \/ FetchRejects
  \/ ParsePaymentRequiredSettles
  \/ \E paymentPayload \in FetchPayloads : HandlePaymentReturns(paymentPayload)
  \/ \E error \in HandlePaymentErrors : HandlePaymentThrows(error)

-----------------------------------------------------------------------------
(* Two calls in flight on one X402Client: selectPaymentRequirements and    *)
(* createPaymentPayload interleaved at their awaits                        *)

concurrentVars == <<calls, lastAssigned>>

CallIds == {1, 2}

TronOffers == {r \in OfferedRequirements : r.network = TRON_NILE}

\* the accepts lists the two calls are made with
ConcurrentAccepts ==
  {<<a>> : a \in TronOffers}
    \cup {<<p[1], p[2]>> : p \in {q \in TronOffers \X TronOffers : q[1] # q[2]}}

IdleCall ==
  [op |-> "none", pc |-> "idle", accepts |-> <<>>, probes |-> NoBalances,
   requirements |-> NoRequirements, candidates |-> <<>>, policyIndex |-> 0,
   result |-> NoRequirements, mechanism |-> NoMechanism, error |-> "none",
   overlapped |-> FALSE]

ConcurrentInit ==
  /\ calls = [c \in CallIds |-> IdleCall]
  /\ lastAssigned = <<>>

NoCallStarted == \A c \in CallIds : calls[c].pc = "idle"

\* another call is suspended at an await
OtherSuspended(c) ==
  \E d \in CallIds \ {c} : calls[d].pc \in {"policy", "mechanism"}

\* a variant with the candidates kept in a field of the client
CandidatesOfClient(c) == lastAssigned

\* let candidates = accepts: a local variable of the call
CandidatesOf(c) == calls[c].candidates

\* the end of selectPaymentRequirements: throw on an empty list, else select
Finished(call, candidates) ==
  [call EXCEPT !.pc = "done",
               !.candidates = candidates,
               !.result = IF candidates = <<>> THEN NoRequirements
                          ELSE select(candidates),
               !.error = IF candidates = <<>> THEN "UnsupportedNetworkError"
                         ELSE "none"]

\* selectPaymentRequirements(accepts) up to its first await: the filters, and
\* with no policy registered the whole call
StartSelect(c, accepts, probes) ==
  /\ lastCall = NoCall
  /\ calls[c].pc = "idle"
  /\ \E candidates \in {FilteredByMechanism(FilteredByOptions(accepts, NoFilters))} :
       \E call \in {[IdleCall EXCEPT !.op = "selectPaymentRequirements",
                                     !.accepts = accepts, !.probes = probes,
                                     !.overlapped = OtherSuspended(c)]} :
         /\ calls' =
              [calls EXCEPT ![c] =
                 IF policies = <<>> THEN Finished(call, candidates)
                 ELSE [call EXCEPT !.pc = "policy", !.policyIndex = 1,
                                   !.candidates = candidates]]
         /\ lastAssigned' = candidates
  /\ UNCHANGED clientVars

\* candidates = await policy.apply(candidates) resolves; after the last
\* policy the call ends
PolicySettles(c) ==
  /\ calls[c].pc = "policy"
  /\ \E candidates \in
        {SufficientBalancePolicy(CandidatesOf(c),
                                 CheckedBalances(calls[c].probes))} :
       /\ calls' =
            [calls EXCEPT ![c] =
               IF calls[c].policyIndex = Len(policies)
               THEN Finished(calls[c], candidates)
               ELSE [calls[c] EXCEPT !.policyIndex = @ + 1,
                                     !.candidates = candidates]]
       /\ lastAssigned' = candidates
  /\ UNCHANGED clientVars

\* createPaymentPayload(requirements, resource, extensions) up to the await
\* of the mechanism it dispatches to
StartCreate(c, req) ==
  /\ lastCall = NoCall
  /\ calls[c].pc = "idle"
  /\ \E mechanism \in {findMechanism(mechanisms, req.network)} :
       calls' =
         [calls EXCEPT ![c] =
            [IdleCall EXCEPT
               !.op = "createPaymentPayload",
               !.requirements = req,
               !.mechanism = mechanism,
               !.overlapped = OtherSuspended(c),
               !.pc = IF mechanism = NoMechanism THEN "done" ELSE "mechanism",
               !.error = IF mechanism = NoMechanism
                         THEN "UnsupportedNetworkError" ELSE "none"]]
  /\ UNCHANGED <<lastAssigned, clientVars>>

\* mechanism.createPaymentPayload resolves with the payload for the
\* requirements it was given
MechanismSettles(c) ==
  /\ calls[c].pc = "mechanism"
  /\ calls' = [calls EXCEPT ![c] = [@ EXCEPT !.pc = "done",
                                             !.result = calls[c].requirements]]
  /\ UNCHANGED <<lastAssigned, clientVars>>

ConcurrentNext ==
  \/ /\ NoCallStarted
     /\ \E p \in NetworkPatterns, m \in ClientMechanisms : Register(p, m)
     /\ UNCHANGED concurrentVars
  \/ /\ NoCallStarted
     /\ RegisterPolicy
     /\ UNCHANGED concurrentVars
  \/ \E c \in CallIds, accepts \in ConcurrentAccepts :
       \E probes \in BalancesFor(accepts, {"0", "9000000"}) :
         StartSelect(c, accepts, probes)
  \/ \E c \in CallIds : PolicySettles(c)
  \/ \E c \in CallIds, req \in OfferedRequirements : StartCreate(c, req)
  \/ \E c \in CallIds : MechanismSettles(c)

-----------------------------------------------------------------------------
(* GasFreeAPIClient.getNonce: the nonce of getAddressInfo, or its fallback *)

nonceVars == <<npc, nuser, nlookup, nresult>>

MaxNonce == 6          \* largest nonce the relay reports

\* data.nonce is absent from the relay's answer
MissingNonce == -1

NonceUsers == {TronBuyer, GasFreeWallet, TronFacilitator}

\* the fields of GasFreeAddressInfo getNonce can see
NonceAddressInfos ==
  [gasFreeAddress : {Undefined, GasFreeWallet}, active : BOOLEAN,
   nonce : {MissingNonce} \cup 0..MaxNonce]

\* what getAddressInfo rejects with: the HTTP status, the code of the body,
\* the network, the JSON text
AddressInfoErrors ==
  {"GasFree API HTTP error", "GasFree API error", "fetch failed", "SyntaxError"}

NoLookup ==
  [settled |-> FALSE, error |-> "none",
   data |-> [gasFreeAddress |-> Undefined, active |-> FALSE,
             nonce |-> MissingNonce]]

NonceInit ==
  /\ npc = "idle"
  /\ nuser = Undefined
  /\ nlookup = NoLookup
  /\ nresult = MissingNonce

\* catch (error) { console.warn(...); return 0; }
RejectedNonce == [pc |-> "returned", result |-> 0]

\* return data.nonce ?? 0
ResolvedNonce(data) == IF data.nonce = MissingNonce THEN 0 ELSE data.nonce

\* getNonce(user) up to await this.getAddressInfo(user)
GetNonce(user) ==
  /\ npc = "idle"
  /\ nuser' = user
  /\ npc' = "getAddressInfo"
  /\ UNCHANGED <<nlookup, nresult>>

\* getAddressInfo resolves
NonceLookupResolves(data) ==
  /\ npc = "getAddressInfo"
  /\ nlookup' = [NoLookup EXCEPT !.settled = TRUE, !.data = data]
  /\ nresult' = ResolvedNonce(data)
  /\ npc' = "returned"
  /\ UNCHANGED nuser

\* getAddressInfo rejects
NonceLookupRejects(error) ==
  /\ npc = "getAddressInfo"
  /\ nlookup' = [NoLookup EXCEPT !.settled = TRUE, !.error = error]
  /\ nresult' = RejectedNonce.result
  /\ npc' = RejectedNonce.pc
  /\ UNCHANGED nuser

NonceNext ==
  \/ \E user \in NonceUsers : GetNonce(user)
  \/ \E data \in NonceAddressInfos : NonceLookupResolves(data)
  \/ \E error \in AddressInfoErrors : NonceLookupRejects(error)

\* no call is in progress after construction
Init ==
  /\ WaitInit /\ MechInit /\ FacInit /\ ClientInit /\ SelectInit
  /\ AllowanceInit /\ AddressInit /\ FetchInit /\ ConcurrentInit
  /\ NonceInit

SpecWait ==
  Init /\ [][WaitNext /\ UNCHANGED <<mechVars, facVars, clientVars, selectVars,
                            allowanceVars, addressVars, fetchVars, concurrentVars,
       nonceVars>>]_vars

SpecMech ==
  Init /\ [][MechNext /\ UNCHANGED <<waitVars, facVars, clientVars, selectVars,
                            allowanceVars, addressVars, fetchVars, concurrentVars,
       nonceVars>>]_vars

SpecFac ==
  Init /\ [][FacNext /\ UNCHANGED <<waitVars, mechVars, clientVars, selectVars,
                            allowanceVars, addressVars, fetchVars, concurrentVars,
       nonceVars>>]_vars

SpecClient ==
  Init /\ [][ClientNext /\ UNCHANGED <<waitVars, mechVars, facVars, selectVars,
                               allowanceVars, addressVars, fetchVars, concurrentVars,
       nonceVars>>]_vars

SpecSelect ==
  Init /\ [][SelectNext /\ UNCHANGED <<waitVars, mechVars, facVars, clientVars,
                               allowanceVars, addressVars, fetchVars, concurrentVars,
       nonceVars>>]_vars

SpecAllowance ==
  Init /\ [][AllowanceNext /\ UNCHANGED <<waitVars, mechVars, facVars, clientVars,
                                  selectVars, addressVars, fetchVars, concurrentVars,
       nonceVars>>]_vars

SpecAddress ==
  Init /\ [][AddressNext /\ UNCHANGED <<waitVars, mechVars, facVars, clientVars,
                                selectVars, allowanceVars, fetchVars, concurrentVars,
       nonceVars>>]_vars

SpecFetch ==
  Init /\ [][FetchNext /\ UNCHANGED <<waitVars, mechVars, facVars, clientVars,
                              selectVars, allowanceVars, addressVars,
                              concurrentVars, nonceVars>>]_vars

SpecConcurrent ==
  Init /\ [][ConcurrentNext /\ UNCHANGED <<waitVars, mechVars, facVars,
                                   selectVars, allowanceVars, addressVars,
                                   fetchVars, nonceVars>>]_vars

SpecNonce ==
  Init /\ [][NonceNext /\ UNCHANGED <<waitVars, mechVars, facVars, clientVars,
                              selectVars, allowanceVars, addressVars,
                              fetchVars, concurrentVars>>]_vars

\* the relay answers every status query and every timer fires
SpecWaitFair ==
  SpecWait
    /\ WF_vars(WaitNext /\ UNCHANGED <<mechVars, facVars, clientVars, selectVars,
                            allowanceVars, addressVars, fetchVars, concurrentVars,
       nonceVars>>)

-----------------------------------------------------------------------------
(* Client mechanisms: properties of createPaymentPayload *)

InfoReceived == mech = "gasfree_exact" /\ accountInfo # NoAddressInfo

LacksGasFreeAddress == accountInfo.gasFreeAddress \in {Undefined, ""}

\* the entries of the relay's asset list for the requested asset
RequestedAssetEntries ==
  {i \in 1..Len(accountInfo.assets) :
     accountInfo.assets[i].tokenAddress = issued.asset}

LacksRequestedAsset == RequestedAssetEntries = {}

\* the relay's entry for the requested asset (the first, as the code reads it)
RequestedAsset ==
  accountInfo.assets[CHOOSE i \in RequestedAssetEntries :
                       \A j \in RequestedAssetEntries : i <= j]

\* the transferFee the relay requires for the requested asset
RequiredTransferFee ==
  IF RequestedAsset.transferFee = Undefined THEN 0
  ELSE BigInt(RequestedAsset.transferFee)

\* the fee the requirements ask for, or the default of 100000
RequestedFee ==
  IF issued.extra.fee.feeAmount \in {Undefined, ""} THEN 100000
  ELSE BigInt(issued.extra.fee.feeAmount)

\* the balance the relay shows is below amount + maxFee
BalanceBelowTotal ==
  /\ ~LacksRequestedAsset
  /\ BigInt(RequestedAsset.balance)
       < BigInt(issued.amount)
           + (IF RequestedFee < RequiredTransferFee
              THEN RequiredTransferFee ELSE RequestedFee)

C2_FeeFloor ==
  (InfoReceived /\ ~LacksRequestedAsset) =>
    /\ \A i \in 1..Len(signCalls) :
         BigInt(signCalls[i].message.maxFee) >= RequiredTransferFee
    /\ mpc = "done" =>
         /\ BigInt(mresult.payload.paymentPermit.fee.feeAmount)
              >= RequiredTransferFee
         /\ mresult.payload.paymentPermit.fee.feeAmount
              = signCalls[1].message.maxFee
         /\ (issued.extra.fee.feeAmount = Undefined
               /\ RequestedAsset.transferFee = "1000000")
            => mresult.payload.paymentPermit.fee.feeAmount = "1000000"

C2_Witness ==
  /\ InfoReceived
  /\ mpc = "done"
  /\ ~LacksRequestedAsset
  /\ issued.extra.fee.feeAmount = Undefined
  /\ RequestedAsset.transferFee = "1000000"
  /\ mresult.payload.paymentPermit.fee.feeAmount = "1000000"

\* C9: the payload every mechanism returns carries as accepted exactly the
\* requirements the server issued, and the requirements object the caller
\* passed is never changed by the call.
C9_AcceptedVerbatim ==
  /\ mech # "none" => requirements = issued
  /\ mpc = "done" => mresult.accepted = issued

C9_Witness ==
  /\ mpc = "done"
  /\ mech = "gasfree_exact"
  /\ ~LacksRequestedAsset
  /\ RequestedFee < RequiredTransferFee
  /\ mresult.accepted.extra.fee.feeAmount = "100000"
  /\ mresult.payload.paymentPermit.fee.feeAmount = "1000000"

\* token, amount and recipient of a typed-data object handed to the signer
SignedToken(call) ==
  CASE mech = "gasfree_exact" -> TronToEvmFormat(call.message.token)
    [] mech \in {"exact_permit_tron", "exact_permit_evm"} ->
         call.message.payment.payToken
    [] mech = "exact_evm" -> call.domain.verifyingContract

SignedAmount(call) ==
  CASE mech = "gasfree_exact" -> BigInt(call.message.value)
    [] mech \in {"exact_permit_tron", "exact_permit_evm"} ->
         call.message.payment.payAmount
    [] mech = "exact_evm" -> call.message.value

SignedRecipient(call) ==
  CASE mech = "gasfree_exact" -> TronToEvmFormat(call.message.receiver)
    [] mech \in {"exact_permit_tron", "exact_permit_evm"} ->
         call.message.payment.payTo
    [] mech = "exact_evm" -> call.message.to

\* the mechanism's address normalization
Normalized(address) ==
  IF mech \in {"gasfree_exact", "exact_permit_tron"}
  THEN TronToEvmFormat(address)
  ELSE IF startsWith(address, "0x") THEN address ELSE "0x" \o address

\* C10: in every mechanism the token, amount and recipient of each message
\* handed to signTypedData are the issued requirements' asset, amount and
\* payTo, addresses compared in the mechanism's normalized (EVM hex) form.
C10_SignedMatchesRequirements ==
  \A i \in 1..Len(signCalls) :
    /\ SignedToken(signCalls[i]) = Normalized(issued.asset)
    /\ SignedAmount(signCalls[i]) = BigInt(issued.amount)
    /\ SignedRecipient(signCalls[i]) = Normalized(issued.payTo)

C10_Witness ==
  /\ mech = "exact_permit_tron"
  /\ mpc = "done"
  /\ Len(signCalls) = 1
  /\ issued.extra.fee.feeTo # Undefined
  /\ issued.payTo = "TKtWbdzEq5ss9vTS9kwRhBp5mXmBfBns3E"
  /\ signCalls[1].message.payment.payTo # issued.payTo
  /\ signCalls[1].message.payment.payTo = Normalized(issued.payTo)

-----------------------------------------------------------------------------
(* Settlement polling: properties of waitForSuccess *)

WaitDone == wpc \in {"returned", "threw"}

IsFailureStatus(s) ==
  s.state \in {"FAILED", "failed"} \/ s.txnState = "ON_CHAIN_FAILED"

IsConfirmingOnChain(s) ==
  /\ s.state \in {"CONFIRMING", "confirming"}
  /\ s.txnState \in {"ON_CHAIN", "on_chain"}

IsSucceed(s) == s.state = "SUCCEED"

\* C3: waitForSuccess returns normally only when a poll observed SUCCEED or
\* through the grace rule at timeout, and the status it returns never has
\* state FAILED or txnState ON_CHAIN_FAILED.
C3_FailureNeverReturned ==
  wpc = "returned" =>
    /\ wresult = statusData
    /\ \/ IsSucceed(wresult)
       \/ timedOut /\ IsConfirmingOnChain(wresult)
    /\ ~IsFailureStatus(wresult)

\* C4: once a poll has observed state FAILED or txnState ON_CHAIN_FAILED,
\* waitForSuccess has raised at that poll: the failure error is thrown in the
\* step that observes the status, with no further sleep, poll or timeout.
C4_FailureRaisesAtThatPoll ==
  (statusData # NoStatus /\ IsFailureStatus(statusData)) =>
    (wpc = "threw" /\ werror = "failed" /\ ~timedOut)

\* C5: when the loop is left on timeout and the last observed status is
\* CONFIRMING with txnState ON_CHAIN, waitForSuccess has returned that last
\* status object.
C5_GraceSuccess ==
  (timedOut /\ statusData # NoStatus /\ IsConfirmingOnChain(statusData)) =>
    (wpc = "returned" /\ wresult = statusData)

C5_Witness ==
  /\ timedOut
  /\ polls >= 2
  /\ IsConfirmingOnChain(statusData)
  /\ wpc = "returned"

\* C6: when the loop is left on timeout and the last observed status is not
\* CONFIRMING with txnState ON_CHAIN (or no status was observed), the call
\* has raised the timeout error and returned nothing.
C6_TimeoutRaises ==
  (timedOut /\ ~(statusData # NoStatus /\ IsConfirmingOnChain(statusData))) =>
    (wpc = "threw" /\ werror = "timeout" /\ wresult = NoStatus)

C6_Witness ==
  /\ timedOut
  /\ polls >= 1
  /\ statusData.state = "CONFIRMING"
  /\ statusData.txnState = "NOT_ON_CHAIN"
  /\ werror = "timeout"

\* C7: every status query starts while less than timeout has elapsed since the
\* call began, at most one query starts per tick of the budget, and every call
\* ends by returning or raising.
C7_PollingBounded ==
  /\ [](polls > 0 => lastQueryAt < timeout)
  /\ [](polls <= timeout)
  /\ <>WaitDone

C7_Witness ==
  /\ polls = MaxTimeout
  /\ timedOut
  /\ WaitDone

\* C8: a poll that observes state SUCCEED makes waitForSuccess return that
\* status object in the same step, whatever was observed before it.
C8_SucceedReturns ==
  (statusData # NoStatus /\ IsSucceed(statusData)) =>
    (wpc = "returned" /\ wresult = statusData /\ werror = "none")

C8_Witness ==
  /\ polls >= 2
  /\ sleeps >= 1
  /\ IsSucceed(statusData)
  /\ wpc = "returned"

-----------------------------------------------------------------------------
(* Facilitator: properties of verification and settlement *)

PastVerifying(a) ==
  attempts[a].state \in {"VERIFIED", "REJECTED", "SETTLING", "SETTLED", "FAILED"}

PermitKey(a) ==
  <<attempts[a].payload.paymentPermit.buyer,
    attempts[a].payload.paymentPermit.meta.nonce>>

\* C11: an attempt whose payload.accepted differs in any field from the
\* server's copy of the requirements is answered isValid = false and is
\* REJECTED, whatever its signature, window and nonce.
C11_TamperedNeverValid ==
  \A a \in Attempts :
    (PastVerifying(a) /\ attempts[a].payload.accepted # attempts[a].requirements)
      => /\ attempts[a].state = "REJECTED"
         /\ ~attempts[a].verifyResponse.isValid

C11_Witness ==
  \E a \in Attempts :
    /\ attempts[a].state = "REJECTED"
    /\ BigInt(attempts[a].payload.accepted.amount)
         = BigInt(attempts[a].requirements.amount) + 1
    /\ SignatureValid(attempts[a].payload)
    /\ InsideWindow(attempts[a].payload.paymentPermit,
                    attempts[a].verifyResponse.at)
    /\ ~attempts[a].verifyResponse.nonceConsumed

\* C12: once a (buyer, nonce) is consumed, a verification of a permit with
\* that key ends REJECTED with isValid = false and a settlement of it ends
\* FAILED with success = false; no two attempts with one (buyer, nonce) are
\* both SETTLED.
C12_NonceIdempotent ==
  [][/\ \A a \in Attempts :
          PermitKey(a) \in nonceUsed =>
            /\ (attempts[a].state = "VERIFYING"
                  /\ attempts'[a].state # "VERIFYING")
               => /\ attempts'[a].state = "REJECTED"
                  /\ ~attempts'[a].verifyResponse.isValid
            /\ (attempts[a].state = "SETTLING"
                  /\ attempts'[a].state # "SETTLING")
               => /\ attempts'[a].state = "FAILED"
                  /\ ~attempts'[a].settleResponse.success
     /\ \A a, b \in Attempts :
          (/\ a # b
           /\ attempts'[a].state = "SETTLED"
           /\ attempts'[b].state = "SETTLED")
          => attempts'[a].payload.paymentPermit.meta.nonce
               # attempts'[b].payload.paymentPermit.meta.nonce
               \/ attempts'[a].payload.paymentPermit.buyer
                    # attempts'[b].payload.paymentPermit.buyer]_vars

C12_Witness ==
  \E a, b \in Attempts :
    /\ a # b
    /\ attempts[a].payload = attempts[b].payload
    /\ attempts[a].state = "SETTLED"
    /\ attempts[b].state = "REJECTED"
    /\ attempts[b].verifyResponse.invalidReason = "nonce_used"

\* the attempts with the permit key of a whose contract call has returned
FinishedWithKeyOf(a) ==
  {b \in Attempts : /\ attempts[b].state \in {"SETTLED", "FAILED"}
                    /\ PermitKey(b) = PermitKey(a)}

C14_WindowDecidesVerification ==
  \A a \in Attempts :
    PastVerifying(a) =>
      LET permit == attempts[a].payload.paymentPermit
          at == attempts[a].verifyResponse.at
      IN /\ permit.meta.validBefore < at => ~attempts[a].verifyResponse.isValid
         /\ permit.meta.validAfter > at => ~attempts[a].verifyResponse.isValid
         /\ (InsideWindow(permit, at) /\ SignatureValid(attempts[a].payload))
            => attempts[a].verifyResponse.isValid

\* C14 amended: verification fails when validBefore < now, fails when
\* validAfter > now, and passes for a permit inside the window that has a
\* valid signature when payload.accepted equals the server's requirements
\* and the buyer's nonce is not consumed.
C14_WindowEnforced ==
  \A a \in Attempts :
    PastVerifying(a) =>
      LET permit == attempts[a].payload.paymentPermit
          at == attempts[a].verifyResponse.at
      IN /\ permit.meta.validBefore < at => ~attempts[a].verifyResponse.isValid
         /\ permit.meta.validAfter > at => ~attempts[a].verifyResponse.isValid
         /\ (/\ InsideWindow(permit, at)
             /\ SignatureValid(attempts[a].payload)
             /\ attempts[a].payload.accepted = attempts[a].requirements
             /\ ~attempts[a].verifyResponse.nonceConsumed)
            => attempts[a].verifyResponse.isValid

C14_Witness ==
  \E a, b \in Attempts :
    /\ attempts[a].state = "VERIFIED"
    /\ attempts[b].state = "REJECTED"
    /\ attempts[a].payload = attempts[b].payload
    /\ ~attempts[b].verifyResponse.nonceConsumed
    /\ attempts[b].payload.paymentPermit.meta.validBefore
         < attempts[b].verifyResponse.at

\* the transitions of RECEIVED -> VERIFYING -> {VERIFIED | REJECTED} ->
\* SETTLING -> {SETTLED | FAILED}
AttemptTransitions ==
  {<<"NONE", "RECEIVED">>, <<"RECEIVED", "VERIFYING">>,
   <<"VERIFYING", "VERIFIED">>, <<"VERIFYING", "REJECTED">>,
   <<"VERIFIED", "SETTLING">>, <<"SETTLING", "SETTLED">>,
   <<"SETTLING", "FAILED">>}

\* C15: every change of an attempt's state is one of the transitions above:
\* SETTLING is entered only from VERIFIED, never from REJECTED, and REJECTED,
\* SETTLED and FAILED are never left.
C15_AttemptLifecycle ==
  [][\A a \in Attempts :
       attempts'[a].state # attempts[a].state =>
         <<attempts[a].state, attempts'[a].state>> \in AttemptTransitions]_vars

C15_Witness ==
  \E a, b \in Attempts :
    /\ attempts[a].state = "FAILED"
    /\ attempts[b].state = "SETTLED"
    /\ attempts[b].settleResponse.success
    /\ ~attempts[a].settleResponse.success

-----------------------------------------------------------------------------
(* X402Client: properties of the registry, of dispatch and of selection *)

Dispatched ==
  lastCall.op = "createPaymentPayload" /\ lastCall.error = "none"

Selected ==
  lastCall.op = "selectPaymentRequirements" /\ lastCall.error = "none"

\* the entries of the registry whose pattern is the network itself
ExactEntries(network) ==
  {i \in 1..Len(mechanisms) : mechanisms[i].pattern = network}

\* the entries of the registry whose pattern is a wildcard matching the network
WildcardEntries(network) ==
  {i \in 1..Len(mechanisms) :
     /\ mechanisms[i].pattern # network
     /\ matchPattern(mechanisms[i].pattern, network)}

\* the register call that registered the first exact entry for the network
FirstExactRegistration(network) ==
  registrations[CHOOSE i \in 1..Len(registrations) :
                  /\ registrations[i].pattern = network
                  /\ \A j \in 1..(i - 1) : registrations[j].pattern # network]

\* C16: the registry is sorted by descending priority after every register
\* call, and a createPaymentPayload for a network that has an exact entry
\* dispatches to the mechanism registered with that exact pattern, wherever
\* the wildcard entries were registered.
C16_ExactPatternWins ==
  /\ \A i, j \in 1..Len(mechanisms) :
       i < j => mechanisms[i].priority >= mechanisms[j].priority
  /\ (lastCall.op = "createPaymentPayload"
        /\ ExactEntries(lastCall.requirements.network) # {})
     => /\ lastCall.error = "none"
        /\ lastCall.mechanism
             = FirstExactRegistration(lastCall.requirements.network).mechanism

C16_Witness ==
  /\ Dispatched
  /\ Len(registrations) = 2
  /\ registrations[1].pattern = "tron:*"
  /\ registrations[2].pattern = lastCall.requirements.network
  /\ registrations[1].mechanism # registrations[2].mechanism
  /\ lastCall.mechanism = registrations[2].mechanism

\* C17: the mechanism createPaymentPayload dispatches to has scheme() equal
\* to requirements.scheme and is registered under a pattern that matches
\* requirements.network.
C17_DispatchBySchemeAndNetwork ==
  Dispatched =>
    /\ lastCall.mechanism.scheme = lastCall.requirements.scheme
    /\ \E i \in 1..Len(mechanisms) :
         /\ mechanisms[i].mechanism = lastCall.mechanism
         /\ matchPattern(mechanisms[i].pattern, lastCall.requirements.network)

Matching(r) ==
  /\ Given(lastCall.filters.scheme) => r.scheme = lastCall.filters.scheme
  /\ Given(lastCall.filters.network) => r.network = lastCall.filters.network
  /\ Given(lastCall.filters.maxAmount)
       => BigInt(r.amount) <= BigInt(lastCall.filters.maxAmount)
  /\ \E i \in 1..Len(mechanisms) : matchPattern(mechanisms[i].pattern, r.network)

\* the buyer's balance of the asset is known and is below amount + fee
CannotAfford(r) ==
  /\ lastCall.balances[r.asset] \notin {NoSigner, Throws}
  /\ BigInt(lastCall.balances[r.asset]) < Needed(r)

PolicyApplied ==
  /\ lastCall.op \in {"sufficientBalancePolicy", "SufficientBalancePolicy.apply"}
  /\ lastCall.error = "none"

\* the candidates of the call whose balance covers amount + fee, in order
Affordable ==
  LET Covered(r) == ~CannotAfford(r) /\ lastCall.balances[r.asset]
                                          \notin {NoSigner, Throws}
  IN SelectSeq(lastCall.accepts, Covered)

\* the candidates of the call that are affordable or could not be probed
AffordableOrUnprobed ==
  LET Kept(r) == ~CannotAfford(r) IN SelectSeq(lastCall.accepts, Kept)

-----------------------------------------------------------------------------
(* DefaultTokenSelectionStrategy: properties of select *)

\* a + b + carry for decimal strings
RECURSIVE DecimalAdd(_, _, _)
DecimalAdd(a, b, carry) ==
  IF Len(a) = 0 /\ Len(b) = 0 THEN (IF carry = 0 THEN "" ELSE DigitChar(carry))
  ELSE LET v == (IF Len(a) = 0 THEN 0 ELSE DigitOf(sliceLast(a, 1)))
                  + (IF Len(b) = 0 THEN 0 ELSE DigitOf(sliceLast(b, 1)))
                  + carry
       IN DecimalAdd(sliceDropLast(a, 1), sliceDropLast(b, 1), v \div 10)
            \o DigitChar(v % 10)

\* amount + fee of an option, as a decimal string
AmountPlusFee(r) ==
  IF Given(r.extra.fee.feeAmount)
  THEN DecimalAdd(r.amount, r.extra.fee.feeAmount, 0)
  ELSE r.amount

\* x / 10^decimals(a) < y / 10^decimals(b) in exact arithmetic
ExactLess(x, a, y, b) ==
  DecimalLess(StripLeadingZeros(x \o Zeros(getDecimals(b))),
              StripLeadingZeros(y \o Zeros(getDecimals(a))))

\* C21: the option select returns minimizes (amount + fee) / 10^decimals over
\* the options it was given.
C21_SelectsLeastCostWithFee ==
  \A c \in 1..Len(selectCalls) :
    selectCalls[c].error = "none" =>
      \A i \in 1..Len(selectCalls[c].accepts) :
        ~ExactLess(AmountPlusFee(selectCalls[c].accepts[i]),
                   selectCalls[c].accepts[i],
                   AmountPlusFee(selectCalls[c].result),
                   selectCalls[c].result)

\* the options have the same amount / 10^decimals in exact arithmetic
SameValue(a, b) ==
  /\ ~ExactLess(a.amount, a, b.amount, b)
  /\ ~ExactLess(b.amount, b, a.amount, a)

\* the place of the first occurrence of option r in the list
FirstIndexOf(accepts, r) ==
  CHOOSE k \in 1..Len(accepts) :
    accepts[k] = r /\ \A j \in 1..(k - 1) : accepts[j] # r

\* C22: no option of the same amount / 10^decimals comes before the option
\* select returns, and a second call on the same list returns the same option.
C22_FirstOfEqualCostWins ==
  /\ \A c \in 1..Len(selectCalls) :
       selectCalls[c].error = "none" =>
         \A i \in 1..(FirstIndexOf(selectCalls[c].accepts,
                                   selectCalls[c].result) - 1) :
           ~SameValue(selectCalls[c].accepts[i], selectCalls[c].result)
  /\ Len(selectCalls) = 2 => selectCalls[2].result = selectCalls[1].result

-----------------------------------------------------------------------------
(* ExactPermit{Tron,Evm}ClientMechanism: context check and step order *)

\* errors.ts: the class each error class extends
ErrorParent ==
  [X402Error |-> "Error",
   SignatureError |-> "X402Error",
   SignatureCreationError |-> "SignatureError",
   AllowanceError |-> "X402Error",
   InsufficientAllowanceError |-> "AllowanceError",
   ConfigurationError |-> "X402Error",
   UnsupportedNetworkError |-> "ConfigurationError",
   ValidationError |-> "X402Error",
   PermitValidationError |-> "ValidationError"]

\* e instanceof cls for an error of class e
RECURSIVE InstanceOf(_, _)
InstanceOf(e, cls) ==
  \/ e = cls
  \/ e \in DOMAIN ErrorParent /\ InstanceOf(ErrorParent[e], cls)

IsPermitMechanism == mech \in {"exact_permit_tron", "exact_permit_evm"}

\* C23: a permit-based createPaymentPayload called without
\* paymentPermitContext throws PermitValidationError, a ValidationError that
\* is neither an AllowanceError nor a ConfigurationError (the class of the
\* unsupported-network error), with no ensureAllowance call, no signTypedData
\* call and no payload.
C23_MissingContextIsValidationError ==
  (IsPermitMechanism /\ ~extensions.hasContext) =>
    /\ mpc = "failed"
    /\ merror = "PermitValidationError"
    /\ InstanceOf(merror, "ValidationError")
    /\ ~InstanceOf(merror, "AllowanceError")
    /\ ~InstanceOf(merror, "ConfigurationError")
    /\ merror # "allowance_error"
    /\ allowanceCalls = <<>>
    /\ signCalls = <<>>
    /\ mresult = NoPayload

C23_Witness ==
  /\ mech = "exact_permit_evm"
  /\ ~extensions.hasContext
  /\ mpc = "failed"
  /\ merror = "PermitValidationError"
  /\ allowanceCalls = <<>>

\* payAmount + feeAmount of the issued requirements
TotalAmount ==
  BigInt(issued.amount) + BigInt(OrElse(issued.extra.fee.feeAmount, "0"))

\* C24: in a permit-based attempt nothing has gone to signTypedData while
\* ensureAllowance is pending; whatever is signed is signed after exactly one
\* ensureAllowance(payToken, payAmount + feeAmount, network) call; and when
\* ensureAllowance throws there is no signTypedData call and no payload.
C24_AllowanceBeforeSigning ==
  IsPermitMechanism =>
    /\ mpc = "ensureAllowance" => signCalls = <<>> /\ Len(allowanceCalls) = 1
    /\ signCalls # <<>> =>
         /\ Len(signCalls) = 1
         /\ Len(allowanceCalls) = 1
         /\ allowanceCalls[1] = [token |-> issued.asset,
                                 amount |-> TotalAmount,
                                 network |-> issued.network]
    /\ merror = "allowance_error" =>
         /\ mpc = "failed"
         /\ signCalls = <<>>
         /\ mresult = NoPayload

C24_Witness ==
  /\ mech = "exact_permit_tron"
  /\ mpc = "failed"
  /\ merror = "allowance_error"
  /\ Len(allowanceCalls) = 1
  /\ allowanceCalls[1].amount = 6500000
  /\ signCalls = <<>>

-----------------------------------------------------------------------------
(* ClientSigner.ensureAllowance: the confirmation window *)

\* the call has returned or thrown
AllowanceSettled == apc \in {"done", "failed"}

\* the milliseconds of sleep that go with the confirmation queries made so
\* far: one fixed wait before each query
WaitedForChecks ==
  ConfirmationWaitMs * (IF apc = "getTransactionInfo" THEN checks + 1 ELSE checks)

\* C25 as stated: in auto mode, once the approve transaction is sent, a signer
\* makes at most 10 confirmation queries, each after a fixed 3000 ms wait, and
\* a call that ends with no query having seen a confirmation returns true.
C25_ConfirmationWindow ==
  (mode = "auto" /\ submitted) =>
    /\ checks <= ConfirmationChecks
    /\ waited = WaitedForChecks
    /\ waited <= ConfirmationChecks * ConfirmationWaitMs
    /\ (AllowanceSettled /\ ~confirmed) => (apc = "done" /\ aresult = TRUE)

\* C25 amended: that holds of TronClientSigner, whose sleeps total at most
\* 30000 ms; EvmClientSigner makes one waitForTransactionReceipt call with no
\* sleep of its own and throws InsufficientAllowanceError when that call ends
\* without a receipt.
C25_TronConfirmationWindow ==
  (mode = "auto" /\ submitted) =>
    IF signerClass = "TronClientSigner"
    THEN /\ checks <= ConfirmationChecks
         /\ loopIndex <= ConfirmationChecks
         /\ waited = WaitedForChecks
         /\ waited <= ConfirmationChecks * ConfirmationWaitMs
         /\ (AllowanceSettled /\ ~confirmed) =>
              (apc = "done" /\ aresult = TRUE /\ checks = ConfirmationChecks)
         /\ aerror = "none"
    ELSE /\ checks <= 1
         /\ waited = 0
         /\ (AllowanceSettled /\ ~confirmed) =>
              (apc = "failed" /\ aerror = "InsufficientAllowanceError"
                 /\ aresult = Undefined)

C25_Witness ==
  /\ signerClass = "TronClientSigner"
  /\ mode = "auto"
  /\ submitted
  /\ apc = "done"
  /\ ~confirmed
  /\ aresult = TRUE
  /\ checks = 10
  /\ waited = 30000

-----------------------------------------------------------------------------
(* GasFreeTronClientMechanism: balance and asset checks *)

\* the relay's answer has a gasFreeAddress and an activated account
AccountUsable == InfoReceived /\ ~LacksGasFreeAddress /\ accountInfo.active

-----------------------------------------------------------------------------
(* GasFreeTronClientMechanism: service provider, maxFee and primary type *)

\* the addresses of the providers the getProviders calls of this
\* createPaymentPayload call resolved to
FetchedProviders ==
  UNION { {apiCalls[k].result[j].address : j \in 1..Len(apiCalls[k].result)} :
            k \in {n \in 1..Len(apiCalls) : apiCalls[n].method = "getProviders"} }

\* C28: the serviceProvider of every GasFree message handed to the signer is
\* the address of one of the providers that a getProviders call made during
\* this createPaymentPayload call resolved to (so with an empty list nothing
\* is signed).
C28_ServiceProviderFromRelayList ==
  mech = "gasfree_exact" =>
    \A k \in 1..Len(signCalls) :
      signCalls[k].message.serviceProvider \in FetchedProviders

\* the maxFee the stated resolution gives before the raise to transferFee: the
\* requirements' fee, else the relay's transferFee for the asset, else
\* 10^decimals of the token
StatedMaxFeeNoFloor ==
  IF issued.extra.fee.feeAmount \notin {Undefined, ""}
  THEN issued.extra.fee.feeAmount
  ELSE IF ~LacksRequestedAsset /\ RequestedAsset.transferFee \notin {Undefined, ""}
  THEN RequestedAsset.transferFee
  ELSE "1" \o Zeros(getDecimals(issued))

\* the same after the raise to the relay's transferFee
StatedMaxFee ==
  IF ~LacksRequestedAsset
       /\ RequestedAsset.transferFee \notin {Undefined, ""}
       /\ DecimalLess(StatedMaxFeeNoFloor, RequestedAsset.transferFee)
  THEN RequestedAsset.transferFee
  ELSE StatedMaxFeeNoFloor

\* C29: the maxFee of every GasFree message handed to the signer is the
\* requirements' fee when present, otherwise the asset's transferFee from the
\* relay, otherwise 10^decimals of the token, raised to transferFee when below.
C29_MaxFeeResolution ==
  (mech = "gasfree_exact" /\ InfoReceived) =>
    \A k \in 1..Len(signCalls) : signCalls[k].message.maxFee = StatedMaxFee

\* C30: every signTypedData call of the GasFree mechanism names its primary
\* type in an argument of its own.
C30_PrimaryTypePassed ==
  mech = "gasfree_exact" =>
    \A k \in 1..Len(signCalls) : signCalls[k].primaryType # Undefined

-----------------------------------------------------------------------------
(* Validity windows of what the mechanisms sign and return *)

\* validAfter and validBefore of the permit or authorization in the payload
\* createPaymentPayload returned
ReturnedWindow ==
  IF mech = "exact_evm"
  THEN <<BigInt(mresult.extensions.transferAuthorization.validAfter),
         BigInt(mresult.extensions.transferAuthorization.validBefore)>>
  ELSE <<mresult.payload.paymentPermit.meta.validAfter,
         mresult.payload.paymentPermit.meta.validBefore>>

\* C31: every PaymentPermit or TransferAuthorization a mechanism signed and
\* returned has validAfter < validBefore.
C31_ValidAfterBeforeValidBefore ==
  mpc = "done" => ReturnedWindow[1] < ReturnedWindow[2]

-----------------------------------------------------------------------------
(* Address conversion: round trip and invalid input *)

\* C32: for every valid TRON Base58Check address a, toBase58(toEvmHex(a))
\* returns a.
C32_TronRoundTrip ==
  (Len(addressCalls) = 2 /\ addressCalls[1].input \in ValidTronAddresses) =>
    (~addressCalls[2].threw /\ addressCalls[2].output = addressCalls[1].input)

\* a character of a T... address is outside the Base58 alphabet
HasInvalidBase58Character(addr) ==
  startsWith(addr, "T") /\ ~AllCharsIn(addr, BASE58_ALPHABET)

\* a T... address in the Base58 alphabet that does not have the 34
\* characters of 21 bytes and a 4-byte checksum
HasLengthMismatch(addr) ==
  startsWith(addr, "T") /\ AllCharsIn(addr, BASE58_ALPHABET) /\ Len(addr) # 34

\* C33: toEvmHex does not throw, and for an input with a character outside
\* the Base58 alphabet or with a length mismatch it returns the zero address
\* and logs a warning.
C33_InvalidInputGivesZeroAddress ==
  \A k \in 1..Len(addressCalls) :
    addressCalls[k].fn = "toEvmHex" =>
      /\ ~addressCalls[k].threw
      /\ (HasInvalidBase58Character(addressCalls[k].input)
            \/ HasLengthMismatch(addressCalls[k].input)) =>
           /\ addressCalls[k].output = ZERO_ADDRESS_HEX
           /\ addressCalls[k].warned

-----------------------------------------------------------------------------
(* X402FetchClient.request: at most one payment and one retry *)

\* C34: request issues at most two HTTP requests: a response that is not a
\* 402 is returned as is with no payment created, and on a 402 with a
\* parseable challenge one payment payload is created and the request is
\* retried exactly once with the PAYMENT-SIGNATURE header, whose response is
\* returned whatever its status.
C34_AtMostOneRetry ==
  /\ Len(requests) <= 2
  /\ Len(payloads) <= 1
  /\ Len(payloads) = Len(requests) - (IF fpc = "idle" THEN 0 ELSE 1)
  /\ (Len(responses) >= 1 /\ responses[1].status # 402) =>
       /\ fpc = "done" /\ fresult = responses[1]
       /\ Len(requests) = 1 /\ payloads = <<>>
  /\ (Len(responses) >= 1 /\ responses[1].status = 402
        /\ parsePaymentRequired(responses[1]) # Undefined
        /\ fpc \in {"fetch", "done"}) =>
       /\ Len(requests) = 2 /\ Len(payloads) = 1
       /\ requests[2].url = requests[1].url
       /\ requests[2].headers[PAYMENT_SIGNATURE_HEADER]
            = encodePaymentPayload(payloads[1])
       /\ requests[2].headers["Authorization"]
            = requests[1].headers["Authorization"]
  /\ (fpc = "done" /\ Len(responses) = 2) => fresult = responses[2]
  /\ Len(responses) = 2 => fpc = "done"

\* the retry was answered with another 402 that carries a parseable challenge
C34_Witness ==
  /\ fpc = "done"
  /\ Len(responses) = 2
  /\ responses[2].status = 402
  /\ parsePaymentRequired(responses[2]) # Undefined
  /\ Len(payloads) = 1

-----------------------------------------------------------------------------
(* The returned paymentPermit and the signed message *)

\* the message of the last signTypedData call
SignedMessage == signCalls[Len(signCalls)].message

ReturnedPermit == mresult.payload.paymentPermit

\* C35: the paymentPermit returned in the payload carries the values that
\* were signed: nonce, validBefore (the deadline), buyer, payToken, payAmount,
\* payTo and the fee amount.
C35_ReturnedPermitIsSigned ==
  (mpc = "done" /\ mech # "exact_evm") =>
    IF mech = "gasfree_exact"
    THEN /\ SignedMessage.nonce = ReturnedPermit.meta.nonce
         /\ SignedMessage.deadline = toString(ReturnedPermit.meta.validBefore)
         /\ SignedMessage.user = ReturnedPermit.buyer
         /\ SignedMessage.token = ReturnedPermit.payment.payToken
         /\ SignedMessage.value = ReturnedPermit.payment.payAmount
         /\ SignedMessage.receiver = ReturnedPermit.payment.payTo
         /\ SignedMessage.maxFee = ReturnedPermit.fee.feeAmount
    ELSE /\ SignedMessage.meta.nonce = BigInt(ReturnedPermit.meta.nonce)
         /\ SignedMessage.meta.validBefore = ReturnedPermit.meta.validBefore
         /\ SignedMessage.meta.validAfter = ReturnedPermit.meta.validAfter
         /\ SignedMessage.buyer = toEvmFormat(mech, ReturnedPermit.buyer)
         /\ SignedMessage.payment.payToken
              = toEvmFormat(mech, ReturnedPermit.payment.payToken)
         /\ SignedMessage.payment.payAmount
              = BigInt(ReturnedPermit.payment.payAmount)
         /\ SignedMessage.payment.payTo
              = toEvmFormat(mech, ReturnedPermit.payment.payTo)
         /\ SignedMessage.fee.feeAmount = BigInt(ReturnedPermit.fee.feeAmount)

\* a GasFree payload whose deadline was not given by the server
C35_Witness ==
  /\ mpc = "done"
  /\ mech = "gasfree_exact"
  /\ extensions.meta.validBefore = 0
  /\ ReturnedPermit.meta.validBefore = NowSeconds + 3600
  /\ ReturnedPermit.fee.feeAmount # "0"

\* a permit payload with a fee
C35_WitnessPermit ==
  /\ mpc = "done"
  /\ mech = "exact_permit_tron"
  /\ ReturnedPermit.fee.feeAmount # "0"
  /\ SignedMessage.payment.payTo # SignedMessage.fee.feeTo

-----------------------------------------------------------------------------
(* Balance probes that fail *)

\* the balance query for the asset of a requirement failed or threw
ProbeFailed(req) == lastCall.probes[req.asset] \in {QueryFails, Throws}

KeptCandidate(req) ==
  \E i \in 1..Len(lastCall.candidates) : lastCall.candidates[i] = req

\* C36: a candidate whose balance query fails is not removed by the
\* sufficient-balance policy, and selection does not fail because of the
\* failed query.
C36_ProbeFailureDoesNotBlock ==
  /\ lastCall.op \in {"SufficientBalancePolicy.apply", "sufficientBalancePolicy"} =>
       /\ lastCall.error = "none"
       /\ \A i \in 1..Len(lastCall.accepts) :
            ProbeFailed(lastCall.accepts[i]) => KeptCandidate(lastCall.accepts[i])
  /\ (lastCall.op = "selectPaymentRequirements" /\ policies # <<>>) =>
       LET matching ==
             FilteredByMechanism(FilteredByOptions(lastCall.accepts,
                                                   lastCall.filters))
       IN \A i \in 1..Len(matching) :
            ProbeFailed(matching[i]) =>
              KeptCandidate(matching[i]) /\ lastCall.error = "none"

-----------------------------------------------------------------------------
(* Two calls in flight on one client *)

\* what a call returns when it runs alone on the client
AloneCandidates(call) ==
  ApplyPolicies(policies,
                FilteredByMechanism(FilteredByOptions(call.accepts, NoFilters)),
                CheckedBalances(call.probes))

\* C37: for concurrent selectPaymentRequirements and createPaymentPayload
\* calls on one client, under every interleaving at their awaits each call's
\* outcome is the one it has running alone with the same arguments and the
\* same external responses.
C37_CallsDoNotInterfere ==
  \A c \in CallIds :
    calls[c].pc = "done" =>
      IF calls[c].op = "selectPaymentRequirements"
      THEN LET alone == AloneCandidates(calls[c])
           IN /\ calls[c].error = (IF alone = <<>> THEN "UnsupportedNetworkError"
                                   ELSE "none")
              /\ calls[c].result = (IF alone = <<>> THEN NoRequirements
                                    ELSE select(alone))
      ELSE LET alone == findMechanism(mechanisms, calls[c].requirements.network)
           IN /\ calls[c].mechanism = alone
              /\ calls[c].error = (IF alone = NoMechanism
                                   THEN "UnsupportedNetworkError" ELSE "none")
              /\ calls[c].result = (IF alone = NoMechanism THEN NoRequirements
                                    ELSE calls[c].requirements)

\* two selections overlapped, the one started first ended last, and they
\* returned different options
C37_Witness ==
  /\ \A c \in CallIds :
       calls[c].pc = "done" /\ calls[c].op = "selectPaymentRequirements"
         /\ calls[c].error = "none"
  /\ calls[2].overlapped
  /\ calls[1].policyIndex >= 1
  /\ calls[1].result # calls[2].result
  /\ lastAssigned = calls[1].candidates
  /\ lastAssigned # calls[2].candidates

-----------------------------------------------------------------------------
(* An approval that did not succeed *)

\* C38: if ensureAllowance resolves with false (the approval transaction was
\* confirmed as failed or reverted), the permit mechanism does not go on to
\* sign: no signature is asked for and no payload is returned.
C38_FailedApprovalNeverSigns ==
  (IsPermitMechanism /\ allowanceResults # <<>>
     /\ ~allowanceResults[Len(allowanceResults)]) =>
    /\ signCalls = <<>>
    /\ mpc # "done"

-----------------------------------------------------------------------------
(* waitForSuccess: a timeout and the status queries before it *)

\* C39: waitForSuccess queries the status at least once before it reports a
\* timeout, for every timeout and poll interval, a timeout of 0 included: a
\* timeout error is never raised with no status observed.
C39_QueriesBeforeTimeout ==
  (wpc = "threw" /\ werror = "timeout") =>
    (polls >= 1 /\ statusData # NoStatus)

\* C39 as the code has it: with a timeout above 0 a timeout error comes after
\* at least one status was observed; with a timeout of 0 it comes with no
\* query made.
C39_PositiveTimeoutQueriesBeforeTimeout ==
  (wpc = "threw" /\ werror = "timeout") =>
    IF timeout > 0 THEN polls >= 1 /\ statusData # NoStatus
    ELSE polls = 0 /\ statusData = NoStatus

\* a timeout error after exactly one query, with the smallest budget above 0
C39_Witness ==
  /\ wpc = "threw"
  /\ werror = "timeout"
  /\ timeout = 1
  /\ polls = 1
  /\ statusData # NoStatus

-----------------------------------------------------------------------------
(* getNonce: a lookup that failed *)

\* C40: getNonce returns the nonce the relay reports for the user or raises;
\* it returns no nonce when the relay could not be queried.
C40_FailedLookupGivesNoNonce ==
  npc = "returned" =>
    /\ nlookup.error = "none"
    /\ nlookup.data.nonce # MissingNonce
    /\ nresult = nlookup.data.nonce

====
